---- MODULE Spec2Model ----
(***************************************************************************)
(* Telenot <-> MQTT bridge: frame handling (SocketHandler, Telenot,        *)
(* StateManager) and the two reconnection machines (SocketManager,         *)
(* MqttHandler).                                                           *)
(*                                                                         *)
(* Node.js runs one macrotask (a socket 'data' event, a publish callback,  *)
(* a timer) at a time and drains the microtask queue after it.  An action  *)
(* of this model is one macrotask together with the promise continuations  *)
(* it makes runnable; an `await` of real I/O (an MQTT publish, a timer)    *)
(* ends the action and a later action resumes the handler.                 *)
(***************************************************************************)
EXTENDS Integers, Sequences, FiniteSets, TLC

\* ------------------------------------------------------------------ bounds
\* frames delivered to handleData in one run
MaxFrames == 3
\* frames delivered in one run of SpecParse
MaxParse == 2
\* sensor publish calls that fail in one run
MaxFailures == 1
\* TCP sockets created in one run
MaxSockets == 3
\* MQTT clients created in one run
MaxClients == 3
\* handleReconnection calls awaiting or sleeping at one time
MaxLoops == 2
\* MQTT connection attempts followed past the cap of failed attempts
MaxPastCap == 1
\* terminal MQTT log lines counted
MaxMqttLogged == 2
\* sendCommand calls in one run
MaxCommands == 2
\* bytes after the header of a message handed to calculateChecksum
MaxBody == 2
\* system state frames delivered in one run of SpecCmd
MaxCmdFrames == 1
\* frames and commands handled in one run of SpecMix
MaxEvents == 2
\* TCP sockets created in one run of SpecLink
MaxLinkSockets == 2
\* frames and commands handled in one run of SpecLink
MaxLinkEvents == 1

VARIABLES
    statesPrevious,       \* StateManager.statesPrevious: area -> snapshot
    lastPublishedStates,  \* StateManager.lastPublishedStates: topic -> state
    handlers,             \* the handleStateChange calls, in start order
    pubLog,               \* the publishState evaluations of named positions
    parsers,              \* the handleData calls, in arrival order
    received,             \* area -> byte map of the last frame delivered
    readyToSendData,      \* SocketHandler.readyToSendData.value
    virtualNightMode,     \* VirtualStateHandler.virtualNightMode
    isConnected,          \* SocketManager.isConnected
    reconnectAttempts,    \* SocketManager.reconnectAttempts
    reconnectTimeout,     \* TRUE while the timer of handleReconnect is pending
    sockets,              \* the net.Socket objects created, in creation order
    maxLogged,            \* 'Max reconnection attempts reached' lines logged
    shutdown,             \* closeConnection() has been called
    mqttIsConnected,      \* MqttHandler._isConnected
    mqttReconnectAttempts,\* MqttHandler.mqttReconnectAttempts
    reconnectInProgress,  \* MqttHandler.reconnectInProgress
    connectionPromise,    \* MqttHandler.connectionPromise: 0 (null) or the
                          \* client whose connect() call created it
    clients,              \* the mqtt clients created, in creation order
    loops,                \* the handleReconnection calls that reached an await
    initialize,           \* where MqttHandler.initialize() stands
    reconnectListener,    \* the client setupReconnection registered on, or 0
    mqttMaxLogged,        \* 'Max MQTT reconnection attempts reached' lines
    failedInARow,         \* failed MQTT connection attempts since a connect
    attemptsPastCap,      \* MQTT attempts begun after the cap of failures
    commands,             \* the handleCommand calls, in call order
    sends,                \* the sendCommand calls, in call order
    call                  \* the last application of a pure function

frameVars == <<statesPrevious, lastPublishedStates, handlers, pubLog, parsers,
               received, readyToSendData, virtualNightMode>>

tcpVars == <<reconnectAttempts, reconnectTimeout, sockets, maxLogged, shutdown>>

mqttVars == <<mqttIsConnected, mqttReconnectAttempts, reconnectInProgress,
              connectionPromise, clients, loops, initialize, reconnectListener,
              mqttMaxLogged, failedInARow, attemptsPastCap>>

cmdVars == <<commands, sends>>

vars == <<frameVars, isConnected, tcpVars, mqttVars, cmdVars, call>>

\* --------------------------------------------------------------- catalog
MELDEGRUPPEN == "MELDEGRUPPEN"
MELDEBEREICHE == "MELDEBEREICHE"
Areas == {MELDEGRUPPEN, MELDEBEREICHE}

Offset_alwaysTen(area) == 10

\* config.Telenot[area].offset
Offset(area) == IF area = MELDEGRUPPEN THEN 12 ELSE 10

\* config.Telenot[area].positions: hex is the bit address, named says whether
\* the entry has a name (an entry without one is only logged in discovery mode)
Positions(area) ==
    IF area = MELDEGRUPPEN
    THEN << [hex |-> 0, named |-> TRUE,  topic |-> "mg/0", inverted |-> TRUE],
            [hex |-> 1, named |-> FALSE, topic |-> "mg/1", inverted |-> TRUE],
            [hex |-> 9, named |-> TRUE,  topic |-> "mg/9", inverted |-> FALSE],
            [hex |-> 25, named |-> TRUE, topic |-> "mg/25", inverted |-> FALSE] >>
    ELSE << [hex |-> 16, named |-> TRUE, topic |-> "mb/16", inverted |-> TRUE] >>

Topics == {"mg/0", "mg/1", "mg/9", "mg/25", "mb/16"}

\* sensor bytes a content frame carries between its header and its checksum:
\* byte 0 moves bit addresses 0 and 1, byte 1 bit address 9.
\* The byte map of a frame also holds its checksum and end byte, so a frame
\* of two sensor bytes has a byte 3 (bit address 25) and a shorter one has not
Payloads(area) ==
    IF area = MELDEGRUPPEN
    THEN {<<b0>> : b0 \in {0, 1, 2}} \cup {<<0, 0>>, <<1, 0>>, <<1, 2>>}
    ELSE {<<b0>> : b0 \in {0, 1}}

\* ------------------------------------------------------------- pure code
RECURSIVE Bin_noPad(_, _)
Bin_noPad(num, w) ==
    IF w = 0 \/ num = 0 THEN <<>>
    ELSE Append(Bin_noPad(num \div 2, w - 1), IF num % 2 = 1 THEN "1" ELSE "0")

RECURSIVE Bin(_, _)
\* num.toString(2).padStart(w, '0') as a sequence of "0"/"1", most
\* significant digit first
Bin(num, w) ==
    IF w = 0 THEN <<>>
    ELSE Append(Bin(num \div 2, w - 1), IF num % 2 = 1 THEN "1" ELSE "0")

Reverse(s) == [i \in 1..Len(s) |-> s[Len(s) + 1 - i]]

reverseBinary_notReversed(num) == Bin(num, 8)

reverseBinary(num) == Reverse(Bin(num, 8))

mapBinaryValue_ignoresInverted(value, inverted) ==
    IF value = "1" THEN "ON" ELSE "OFF"

mapBinaryValue(value, inverted) ==
    IF (IF inverted THEN value = "0" ELSE value = "1") THEN "ON" ELSE "OFF"

\* Map.get on a byte map kept as a sequence: index 0 is element 1;
\* -1 stands for undefined
MapGet(map, byteIndex) ==
    IF byteIndex + 1 <= Len(map) THEN map[byteIndex + 1] ELSE -1

RECURSIVE Flatten(_)
Flatten(ss) == IF ss = <<>> THEN <<>> ELSE Head(ss) \o Flatten(Tail(ss))

\* the positions of a publishPositionStates loop that reach publishState,
\* in catalog order, each with the bit handed over
publishPositionStatesWork_setBitsOnly(byteMap, positions) ==
    Flatten([i \in 1..Len(positions) |->
        LET byteIndex == positions[i].hex \div 8
            bitIndex  == positions[i].hex % 8
            byteValue == MapGet(byteMap, byteIndex)
        IN  IF byteValue # -1 /\ reverseBinary(byteValue)[bitIndex + 1] = "1"
            THEN << [pos |-> i, bit |-> "1", byte |-> byteIndex] >>
            ELSE <<>>])

publishPositionStatesWork(byteMap, positions) ==
    Flatten([i \in 1..Len(positions) |->
        LET byteIndex == positions[i].hex \div 8
            bitIndex  == positions[i].hex % 8
            byteValue == MapGet(byteMap, byteIndex)
        IN  IF byteValue # -1
            THEN << [pos |-> i, bit |-> reverseBinary(byteValue)[bitIndex + 1],
                     byte |-> byteIndex] >>
            ELSE <<>>])

\* the positions of one processStateChanges call that reach publishState
processStateChangesWork_noRangeFilter(newValue, oldValue, byteIndex, positions) ==
    LET newBinary == reverseBinary(newValue)
    IN  Flatten([i \in 1..Len(positions) |->
            << [pos |-> i, bit |-> newBinary[(positions[i].hex % 8) + 1],
                byte |-> byteIndex] >>])

processStateChangesWork(newValue, oldValue, byteIndex, positions) ==
    LET newBinary == reverseBinary(newValue)
        oldBinary == reverseBinary(oldValue)
    IN  Flatten([i \in 1..Len(positions) |->
            LET posIndex == positions[i].hex
                bitIndex == posIndex % 8
            IN  IF /\ posIndex >= byteIndex * 8
                   /\ posIndex < (byteIndex + 1) * 8
                   /\ newBinary[bitIndex + 1] # oldBinary[bitIndex + 1]
                THEN << [pos |-> i, bit |-> newBinary[bitIndex + 1],
                         byte |-> byteIndex] >>
                ELSE <<>>])

\* the loop of handleStateChange over the bytes of a later frame
handleStateChangeWork(byteMap, prevMap, positions) ==
    Flatten([k \in 1..Len(byteMap) |->
        LET byteIndex == k - 1
            old == MapGet(prevMap, byteIndex)
        IN  IF old # byteMap[k]
            THEN processStateChangesWork(byteMap[k], IF old = -1 THEN 0 ELSE old,
                                         byteIndex, positions)
            ELSE <<>>])

\* ------------------------------------------------------------ the frames
ContentTypes == {"MP", "SB"}
TwoPublishTypes == {"SYS_INT_ARMED", "SYS_DISARMED", "SYS_EXT_ARMED", "ALARM"}
OnePublishTypes == {"INTRUSION", "BATTERY_MALFUNCTION", "POWER_OUTAGE",
                    "OPTICAL_FLASHER_MALFUNCTION", "HORN_1_MALFUNCTION",
                    "HORN_2_MALFUNCTION", "COM_FAULT", "RESTART"}
\* TelenotMsgType, without the discovery-only tags getMsgType never returns
MsgTypes == {"SEND_NORM", "CONF_ACK", "SEND_NDAT", "INVALID"}
            \cup ContentTypes \cup TwoPublishTypes \cup OnePublishTypes

RECURSIVE SumBytes(_)
SumBytes(bytes) == IF bytes = <<>> THEN 0 ELSE Head(bytes) + SumBytes(Tail(bytes))

AreaOf(type) == IF type = "MP" THEN MELDEGRUPPEN ELSE MELDEBEREICHE

\* the bytes of a content frame as the MP and SB patterns of
\* matchHexStrToMsgType require them: 68 LL LL 68 73 02 aa 24 00 0x 00 0y,
\* the sensor bytes, a checksum byte (never verified on receipt) and 16
FrameBytes(type, payload) ==
    LET n == Len(payload) + 8
        body == << 115, 2, 5, 36, 0, IF type = "MP" THEN 0 ELSE 5, 0,
                   IF type = "MP" THEN 1 ELSE 2 >> \o payload
    IN  << 104, n, n, 104 >> \o body \o << SumBytes(body) % 256, 22 >>

\* hex.slice(contentConfig.offset) as the byte map index -> value
decodeHex(hex, contentName) ==
    SubSeq(hex, Offset(contentName) + 1, Len(hex))

NoSnapshot == [has |-> FALSE, map |-> <<>>]
Snapshot(byteMap) == [has |-> TRUE, map |-> byteMap]

\* -------------------------------------------------------- publishState
\* what one publishState call does with the state it computes: "same" when
\* the topic's last published state equals it, "unnamed" when the position
\* has no name, "publish" when it calls mqttHandler.publish
publishState_noSuppression(position, bitValue, lastPublished) ==
    IF ~position.named THEN "unnamed" ELSE "publish"

publishState(position, bitValue, lastPublished) ==
    LET state == mapBinaryValue(bitValue, position.inverted)
    IN  IF lastPublished[position.topic] = state THEN "same"
        ELSE IF ~position.named THEN "unnamed"
        ELSE "publish"

LogEntry(log, h, item, res) ==
    LET position == Positions(h.area)[item.pos]
    IN  [topic |-> position.topic,
         state |-> mapBinaryValue(item.bit, position.inverted),
         frame |-> h.frame, pos |-> item.pos, res |-> res]

RECURSIVE Run(_, _, _, _)
\* a handleStateChange call running from work item i until it awaits the
\* next mqttHandler.publish or returns
Run(h, i, lastPublished, log) ==
    IF i > Len(h.work)
    THEN [h |-> [h EXCEPT !.pc = "done", !.at = i], log |-> log]
    ELSE LET item == h.work[i]
             position == Positions(h.area)[item.pos]
             out == publishState(position, item.bit, lastPublished)
         IN  IF out = "publish"
             THEN [h |-> [h EXCEPT !.pc = "awaiting", !.at = i],
                   log |-> Append(log, LogEntry(log, h, item, "pending"))]
             ELSE IF out = "same" /\ position.named
             THEN Run(h, i + 1, lastPublished,
                      Append(log, LogEntry(log, h, item, "suppressed")))
             ELSE Run(h, i + 1, lastPublished, log)

\* StateManager.handleStateChange up to its first await of a publish
handleStateChange(byteMap, contentName, frameNo) ==
    LET prev == statesPrevious[contentName]
        first == ~prev.has
        positions == Positions(contentName)
        h0 == [frame |-> frameNo, area |-> contentName, byteMap |-> byteMap,
               prevMap |-> prev.map, first |-> first,
               work |-> IF first
                        THEN publishPositionStatesWork(byteMap, positions)
                        ELSE handleStateChangeWork(byteMap, prev.map, positions),
               at |-> 1, pc |-> "awaiting"]
        r == Run(h0, 1, lastPublishedStates, pubLog)
    IN  /\ handlers' = Append(handlers, r.h)
        /\ pubLog' = r.log
        /\ statesPrevious' =
              IF first \/ r.h.pc = "done"
              THEN [statesPrevious EXCEPT ![contentName] = Snapshot(byteMap)]
              ELSE statesPrevious
        /\ received' = [received EXCEPT ![contentName] = Snapshot(byteMap)]
        /\ UNCHANGED lastPublishedStates

\* index of the pending log entry of handler k
PendingEntry(k) ==
    CHOOSE i \in 1..Len(pubLog) :
        /\ pubLog[i].res = "pending"
        /\ pubLog[i].frame = handlers[k].frame
        /\ pubLog[i].pos = handlers[k].work[handlers[k].at].pos

PublishSettled_failureAborts(k, ok) ==
    /\ k \in 1..Len(handlers)
    /\ handlers[k].pc = "awaiting"
    /\ ok \/ Cardinality({i \in 1..Len(pubLog) : pubLog[i].res = "failed"}) < MaxFailures
    /\ LET h == handlers[k]
           e == PendingEntry(k)
           lp == IF ok
                 THEN [lastPublishedStates EXCEPT ![pubLog[e].topic] = pubLog[e].state]
                 ELSE lastPublishedStates
           log1 == [pubLog EXCEPT ![e].res = IF ok THEN "ok" ELSE "failed"]
           r == IF ok THEN Run(h, h.at + 1, lp, log1)
                ELSE [h |-> [h EXCEPT !.pc = "done", !.at = Len(h.work) + 1],
                      log |-> log1]
       IN  /\ lastPublishedStates' = lp
           /\ pubLog' = r.log
           /\ handlers' = [handlers EXCEPT ![k] = r.h]
           /\ statesPrevious' =
                 IF r.h.pc = "done" /\ ~h.first
                 THEN [statesPrevious EXCEPT ![h.area] = Snapshot(h.byteMap)]
                 ELSE statesPrevious
    /\ UNCHANGED <<parsers, received, readyToSendData, virtualNightMode>>

\* the callback of mqttHandler.publish for the call handler k awaits, and
\* the rest of that handleStateChange call up to its next await
PublishSettled(k, ok) ==
    /\ k \in 1..Len(handlers)
    /\ handlers[k].pc = "awaiting"
    /\ ok \/ Cardinality({i \in 1..Len(pubLog) : pubLog[i].res = "failed"}) < MaxFailures
    /\ LET h == handlers[k]
           e == PendingEntry(k)
           lp == IF ok
                 THEN [lastPublishedStates EXCEPT ![pubLog[e].topic] = pubLog[e].state]
                 ELSE lastPublishedStates
           log1 == [pubLog EXCEPT ![e].res = IF ok THEN "ok" ELSE "failed"]
           r == Run(h, h.at + 1, lp, log1)
       IN  /\ lastPublishedStates' = lp
           /\ pubLog' = r.log
           /\ handlers' = [handlers EXCEPT ![k] = r.h]
           /\ statesPrevious' =
                 IF r.h.pc = "done" /\ ~h.first
                 THEN [statesPrevious EXCEPT ![h.area] = Snapshot(h.byteMap)]
                 ELSE statesPrevious
    /\ UNCHANGED <<parsers, received, readyToSendData, virtualNightMode>>

\* ------------------------------------------------------------ handleData
\* mqttHandler.publish calls parseData awaits for a frame of this type
PublishCount(type) ==
    IF type \in TwoPublishTypes THEN 2 ELSE IF type \in OnePublishTypes THEN 1 ELSE 0

\* SocketHandler.publishToMQTT: how the promise it returns settles for an
\* outcome of mqttHandler.publish
publishToMQTT_noCatch(ok) == IF ok THEN "resolved" ELSE "rejected"

publishToMQTT(ok) == "resolved"

\* the acknowledgement frame 68 02 02 68 00 02 02 16
CONF_ACK == << 104, 2, 2, 104, 0, 2, 2, 22 >>

\* handleData after parseData returned CONF_ACK: sendData writes it when the
\* socket is connected and rejects otherwise (caught and logged)
Returned(p) == [p EXCEPT !.pc = "done", !.ret = CONF_ACK, !.sent = isConnected]

\* a message handed to publishToMQTT: a plain string, or the JSON text of an
\* object, kept as the object without its timestamp
Plain(state) == [json |-> FALSE, state |-> state]

Diagnostics(topic, fields) ==
    [topic |-> topic, message |-> [json |-> TRUE] @@ fields]

parsePublishes_alwaysInternal(type, nightMode) ==
    IF type = "SYS_INT_ARMED"
    THEN << [topic |-> "stateTopic", message |-> Plain("armed_home")],
            Diagnostics("diagnosticsTopic/state",
                [state |-> "armed_home", internalState |-> "armed_home",
                 isVirtualMode |-> FALSE, virtualType |-> "null"]) >>
    ELSE <<>>

\* the publishToMQTT calls parseData makes for a frame of this type, in
\* order; nightMode is virtualNightMode when parseData begins
parsePublishes(type, nightMode) ==
    LET stateToPublish == IF nightMode THEN "armed_night" ELSE "armed_home"
    IN  CASE type = "SYS_INT_ARMED" ->
              << [topic |-> "stateTopic", message |-> Plain(stateToPublish)],
                 Diagnostics("diagnosticsTopic/state",
                     [state |-> stateToPublish, internalState |-> "armed_home",
                      isVirtualMode |-> stateToPublish = "armed_night",
                      virtualType |-> IF stateToPublish = "armed_night"
                                      THEN "night_mode" ELSE "null"]) >>
          [] type = "SYS_DISARMED" ->
              << [topic |-> "stateTopic", message |-> Plain("disarmed")],
                 Diagnostics("diagnosticsTopic/state", [state |-> "disarmed"]) >>
          [] type = "SYS_EXT_ARMED" ->
              << [topic |-> "stateTopic", message |-> Plain("armed_away")],
                 Diagnostics("diagnosticsTopic/state",
                     [state |-> "armed_away", type |-> "external"]) >>
          [] type = "ALARM" ->
              << [topic |-> "stateTopic", message |-> Plain("triggered")],
                 Diagnostics("diagnosticsTopic/alarm",
                     [state |-> "triggered", type |-> "alarm"]) >>
          [] type = "INTRUSION" ->
              << Diagnostics("diagnosticsTopic/intrusion",
                     [state |-> "triggered", type |-> "intrusion"]) >>
          [] type = "BATTERY_MALFUNCTION" ->
              << Diagnostics("diagnosticsTopic/battery", [state |-> "malfunction"]) >>
          [] type = "POWER_OUTAGE" ->
              << Diagnostics("diagnosticsTopic/power", [state |-> "outage"]) >>
          [] type = "OPTICAL_FLASHER_MALFUNCTION" ->
              << Diagnostics("diagnosticsTopic/flasher", [state |-> "malfunction"]) >>
          [] type = "HORN_1_MALFUNCTION" ->
              << Diagnostics("diagnosticsTopic/horn1", [state |-> "malfunction"]) >>
          [] type = "HORN_2_MALFUNCTION" ->
              << Diagnostics("diagnosticsTopic/horn2", [state |-> "malfunction"]) >>
          [] type = "COM_FAULT" ->
              << Diagnostics("diagnosticsTopic/communication", [state |-> "fault"]) >>
          [] type = "RESTART" ->
              << Diagnostics("diagnosticsTopic/restart", [state |-> "restart"]) >>
          [] OTHER -> <<>>

readyAfter_ackIgnored(type, ready) == IF type = "SB" THEN TRUE ELSE ready

readyAfter_sendNormClears(type, ready) ==
    IF type \in {"CONF_ACK", "SEND_NORM"} THEN FALSE
    ELSE IF type = "SB" THEN TRUE
    ELSE ready

\* SocketHandler.readyToSendData.value after parseData of a frame of this
\* type: the CONF_ACK case sets it to false, the SB case to true
readyAfter(type, ready) ==
    IF type = "CONF_ACK" THEN FALSE
    ELSE IF type = "SB" THEN TRUE
    ELSE ready

\* SocketHandler.handleData for one 'data' event, with parseData up to its
\* first await of a publish
handleData(type, payload) ==
    /\ Len(parsers) < MaxFrames
    /\ isConnected
    /\ LET frameNo == Len(parsers) + 1
           p0 == [type |-> type, pc |-> "publishing", left |-> PublishCount(type),
                  ret |-> <<>>, sent |-> FALSE, pubFailed |-> FALSE,
                  pubs |-> parsePublishes(type, virtualNightMode)]
       IN  /\ parsers' = Append(parsers, IF PublishCount(type) = 0 THEN Returned(p0) ELSE p0)
           /\ readyToSendData' = readyAfter(type, readyToSendData)
           /\ virtualNightMode' = IF type = "SYS_DISARMED" THEN FALSE ELSE virtualNightMode
           /\ IF type \in ContentTypes
              THEN handleStateChange(decodeHex(FrameBytes(type, payload), AreaOf(type)),
                                     AreaOf(type), frameNo)
              ELSE UNCHANGED <<statesPrevious, lastPublishedStates, handlers, pubLog, received>>

\* the callback of the publish a parseData call awaits, and the rest of
\* that handleData call up to its next await
ParserPublishSettled(k, ok) ==
    /\ k \in 1..Len(parsers)
    /\ parsers[k].pc = "publishing"
    /\ LET p == [parsers[k] EXCEPT !.pubFailed = @ \/ ~ok]
       IN  parsers' = [parsers EXCEPT ![k] =
              IF publishToMQTT(ok) = "rejected"
              THEN [p EXCEPT !.pc = "threw"]
              ELSE IF p.left > 1
              THEN [p EXCEPT !.left = @ - 1]
              ELSE Returned([p EXCEPT !.left = 0])]
    /\ UNCHANGED <<statesPrevious, lastPublishedStates, handlers, pubLog, received,
                   readyToSendData, virtualNightMode>>

\* a frame handleData returned from at once: it is recorded with its type
\* though it was never classified
Dropped(type) ==
    [type |-> type, pc |-> "dropped", left |-> 0, ret |-> <<>>, sent |-> FALSE,
     pubFailed |-> FALSE, pubs |-> <<>>]

handleDataClosed_stillParses(type) ==
    /\ Len(parsers) < MaxFrames
    /\ ~isConnected
    /\ parsers' = Append(parsers, Dropped(type))
    /\ readyToSendData' = readyAfter(type, readyToSendData)
    /\ UNCHANGED <<statesPrevious, lastPublishedStates, handlers, pubLog, received,
                   virtualNightMode>>

\* SocketHandler.handleData for a 'data' event that arrives while
\* getConnectionStatus() is false: it logs and returns
handleDataClosed(type) ==
    /\ Len(parsers) < MaxFrames
    /\ ~isConnected
    /\ parsers' = Append(parsers, Dropped(type))
    /\ UNCHANGED <<statesPrevious, lastPublishedStates, handlers, pubLog, received,
                   readyToSendData, virtualNightMode>>

\* --------------------------------------------------------- SocketManager
maxReconnectAttempts == 5

handleReconnect_noTimer(attempts, timeout, logged) ==
    IF attempts < maxReconnectAttempts
    THEN << attempts + 1, timeout, logged >>
    ELSE << attempts, timeout, logged + 1 >>

\* SocketManager.handleReconnect as the change it makes to
\* <<reconnectAttempts, reconnectTimeout, maxLogged>>: below the cap it counts
\* an attempt and (re)starts the timer, at the cap it logs the terminal error
handleReconnect(attempts, timeout, logged) ==
    IF attempts < maxReconnectAttempts
    THEN << attempts + 1, TRUE, logged >>
    ELSE << attempts, timeout, logged + 1 >>

\* a socket as createConnection makes it; onData tells whether the callbacks
\* it was given are those of the frame handler; consumed counts the attempts
\* its loss events have added to reconnectAttempts; unheard tells whether a
\* frame has arrived on it that only an empty callback received
NewSocket(wired) ==
    [state |-> "connecting", onData |-> wired, consumed |-> 0, unheard |-> FALSE]

\* the 'error', 'close' and 'timeout' listeners of socket s, which differ
\* only in the state the socket is left in
ConnectionLost(s, state) ==
    LET r == handleReconnect(reconnectAttempts, reconnectTimeout, maxLogged)
    IN  /\ isConnected' = FALSE
        /\ reconnectAttempts' = r[1]
        /\ reconnectTimeout' = r[2]
        /\ maxLogged' = r[3]
        /\ UNCHANGED shutdown
        /\ sockets' = [sockets EXCEPT ![s].state = state,
                                      ![s].consumed = @ + (r[1] - reconnectAttempts)]

\* the connect callback of socket s
SocketConnect(s) ==
    /\ s \in 1..Len(sockets)
    /\ sockets[s].state = "connecting"
    /\ sockets' = [sockets EXCEPT ![s].state = "open"]
    /\ isConnected' = TRUE
    /\ reconnectAttempts' = 0
    /\ UNCHANGED <<reconnectTimeout, maxLogged, shutdown>>

SocketError(s) ==
    /\ s \in 1..Len(sockets)
    /\ sockets[s].state \in {"connecting", "open", "ending"}
    /\ ConnectionLost(s, "errored")

SocketClose(s) ==
    /\ s \in 1..Len(sockets)
    /\ sockets[s].state \in {"open", "ending", "errored", "destroyed"}
    /\ ConnectionLost(s, "closed")

\* the idle timeout of socket s, whose listener ends the socket
SocketTimeout(s) ==
    /\ s \in 1..Len(sockets)
    /\ sockets[s].state \in {"connecting", "open"}
    /\ ConnectionLost(s, "ending")

\* SocketManager.closeConnection: the pending timer is cleared and
\* this.socket, the socket created last, is destroyed unless it already is;
\* a destroyed socket still emits its 'close' event
closeConnection ==
    /\ ~shutdown
    /\ shutdown' = TRUE
    /\ reconnectTimeout' = FALSE
    /\ LET s == Len(sockets)
       IN  IF sockets[s].state \in {"errored", "closed", "destroyed"}
           THEN UNCHANGED <<sockets, isConnected>>
           ELSE /\ sockets' = [sockets EXCEPT ![s].state = "destroyed"]
                /\ isConnected' = FALSE
    /\ UNCHANGED <<reconnectAttempts, maxLogged>>

\* the timer of handleReconnect fires: createConnection with empty callbacks
ReconnectTimerFires ==
    /\ reconnectTimeout
    /\ Len(sockets) < MaxSockets
    /\ reconnectTimeout' = FALSE
    /\ sockets' = Append(sockets, NewSocket(FALSE))
    /\ UNCHANGED <<isConnected, reconnectAttempts, maxLogged, shutdown>>

\* a 'data' event of socket s, which calls the onData callback the socket
\* was created with: handleData for the socket of setupConnections, an
\* empty function for a socket handleReconnect created; a socket that was
\* ended still receives what its peer sends until the peer closes
SocketData(s, type, payload) ==
    /\ s \in 1..Len(sockets)
    /\ sockets[s].state \in {"open", "ending"}
    /\ IF sockets[s].onData
       THEN /\ IF isConnected THEN handleData(type, payload) ELSE handleDataClosed(type)
            /\ UNCHANGED sockets
       ELSE /\ sockets' = [sockets EXCEPT ![s].unheard = TRUE]
            /\ UNCHANGED frameVars
    /\ UNCHANGED <<isConnected, reconnectAttempts, reconnectTimeout, maxLogged, shutdown,
                   mqttVars, cmdVars, call>>

\* ----------------------------------------------------------- MqttHandler
maxMqttReconnectAttempts == 10

\* a client as mqtt.connect makes it inside connect(): status is the state of
\* its connection, promise the state of the promise connect() wrapped around
\* it, offlineDue whether it was connected since it last emitted 'offline'
NewClient == [status |-> "connecting", promise |-> "pending", offlineDue |-> FALSE]

\* the fields of the handler one handleReconnection call reads and writes
Handler ==
    [isConnected |-> mqttIsConnected, attempts |-> mqttReconnectAttempts,
     inProgress |-> reconnectInProgress, promise |-> connectionPromise,
     clients |-> clients, logged |-> mqttMaxLogged, pastCap |-> attemptsPastCap]

Saturated(n) == IF n < MaxMqttLogged THEN n + 1 ELSE n

\* the loop of handleReconnection from its while test to its next await:
\* the handler fields afterwards, and where the call then stands ("awaiting"
\* the promise of a client, "sleeping" for five seconds, or "done")
Iterate(m) ==
    IF ~m.isConnected /\ m.attempts < maxMqttReconnectAttempts
    THEN LET m1 == [m EXCEPT !.attempts = @ + 1]
         IN  IF m.promise # 0
             THEN [m |-> m1, awaits |-> m.promise,
                   pc |-> IF m.clients[m.promise].promise = "pending"
                          THEN "awaiting" ELSE "sleeping"]
             ELSE [m |-> [m1 EXCEPT !.clients = Append(@, NewClient),
                                    !.promise = Len(m.clients) + 1,
                                    !.pastCap = IF failedInARow >= maxMqttReconnectAttempts
                                                THEN @ + 1 ELSE @],
                   awaits |-> Len(m.clients) + 1, pc |-> "awaiting"]
    ELSE [m |-> [m EXCEPT !.inProgress = FALSE,
                          !.logged = IF ~m.isConnected
                                        /\ m.attempts >= maxMqttReconnectAttempts
                                     THEN Saturated(@) ELSE @],
          awaits |-> 0, pc |-> "done"]

\* whether Iterate(m) calls mqtt.connect
Creates(m) ==
    ~m.isConnected /\ m.attempts < maxMqttReconnectAttempts /\ m.promise = 0

\* the model follows a run while its clients and its attempts past the cap
\* stay within the bounds
WithinBounds(m) ==
    Creates(m) =>
        /\ Len(m.clients) < MaxClients
        /\ failedInARow >= maxMqttReconnectAttempts => attemptsPastCap < MaxPastCap

\* the handler fields written back
Store(m) ==
    /\ mqttIsConnected' = m.isConnected
    /\ mqttReconnectAttempts' = m.attempts
    /\ reconnectInProgress' = m.inProgress
    /\ connectionPromise' = m.promise
    /\ clients' = m.clients
    /\ mqttMaxLogged' = m.logged
    /\ attemptsPastCap' = m.pastCap

\* MqttHandler.handleReconnection called with the handler fields m
handleReconnection(m) ==
    IF m.inProgress
    THEN Store(m) /\ UNCHANGED loops
    ELSE LET r == Iterate([m EXCEPT !.inProgress = TRUE])
         IN  /\ WithinBounds(m)
             /\ r.pc # "done" => Len(loops) < MaxLoops
             /\ Store(r.m)
             /\ loops' = IF r.pc = "done" THEN loops
                         ELSE Append(loops, [pc |-> r.pc, awaits |-> r.awaits])

\* the 'close' and 'offline' listeners of a client, the client record updated
ConnectionClosed(c, client) ==
    handleReconnection([Handler EXCEPT !.isConnected = FALSE, !.promise = 0,
                                       !.clients = [@ EXCEPT ![c] = client]])

\* initialize() after its await of connect(): the publisher is made, and the
\* command topic is subscribed to when the current client is connected;
\* otherwise subscribe rejects, which is caught, and setupReconnection runs
InitializeResumes(cs) ==
    IF cs[Len(cs)].status = "connected"
    THEN initialize' = "subscribing" /\ UNCHANGED reconnectListener
    ELSE initialize' = "ready" /\ reconnectListener' = Len(cs)

\* the 'connect' listener of client c, and what resumes when it resolves the
\* promise: every handleReconnection call awaiting it leaves its loop, and
\* initialize() goes on
ClientConnect(c) ==
    /\ c \in 1..Len(clients)
    /\ clients[c].status = "connecting"
    /\ LET resolves == clients[c].promise = "pending"
           cs == [clients EXCEPT ![c].status = "connected",
                                 ![c].promise = IF resolves THEN "resolved" ELSE @,
                                 ![c].offlineDue = TRUE]
       IN  /\ clients' = cs
           /\ mqttIsConnected' = TRUE
           /\ mqttReconnectAttempts' = 0
           /\ reconnectInProgress' = FALSE
           /\ failedInARow' = 0
           /\ loops' = IF resolves
                       THEN SelectSeq(loops, LAMBDA l : ~(l.pc = "awaiting" /\ l.awaits = c))
                       ELSE loops
           /\ IF resolves /\ c = 1 /\ initialize = "connecting"
              THEN InitializeResumes(cs)
              ELSE UNCHANGED <<initialize, reconnectListener>>
    /\ UNCHANGED <<connectionPromise, mqttMaxLogged, attemptsPastCap>>

\* the 'error' listener of client c: at the cap it logs and rejects the
\* promise, which sends the calls awaiting it to their five-second wait
ClientError(c) ==
    /\ c \in 1..Len(clients)
    /\ clients[c].status \in {"connecting", "connected"}
    /\ LET atCap == mqttReconnectAttempts >= maxMqttReconnectAttempts
           rejects == atCap /\ clients[c].promise = "pending"
       IN  /\ clients' = [clients EXCEPT ![c].status = "errored",
                                         ![c].promise = IF rejects THEN "rejected" ELSE @]
           /\ mqttIsConnected' = FALSE
           /\ mqttMaxLogged' = IF atCap THEN Saturated(mqttMaxLogged) ELSE mqttMaxLogged
           /\ loops' = IF rejects
                       THEN [i \in 1..Len(loops) |->
                               IF loops[i].pc = "awaiting" /\ loops[i].awaits = c
                               THEN [loops[i] EXCEPT !.pc = "sleeping"] ELSE loops[i]]
                       ELSE loops
           /\ initialize' = IF rejects /\ c = 1 /\ initialize = "connecting"
                            THEN "failed" ELSE initialize
    /\ failedInARow' = IF clients[c].status = "connecting"
                       THEN failedInARow + 1 ELSE failedInARow
    /\ UNCHANGED <<mqttReconnectAttempts, reconnectInProgress, connectionPromise,
                   reconnectListener, attemptsPastCap>>

ClientClose(c) ==
    /\ c \in 1..Len(clients)
    /\ clients[c].status \in {"connecting", "connected", "errored"}
    /\ ConnectionClosed(c, [clients[c] EXCEPT !.status = "closed"])
    /\ failedInARow' = IF clients[c].status = "connecting"
                       THEN failedInARow + 1 ELSE failedInARow
    /\ UNCHANGED <<initialize, reconnectListener>>

ClientOffline(c) ==
    /\ c \in 1..Len(clients)
    /\ clients[c].status = "closed"
    /\ clients[c].offlineDue
    /\ ConnectionClosed(c, [clients[c] EXCEPT !.offlineDue = FALSE])
    /\ UNCHANGED <<initialize, reconnectListener, failedInARow>>

\* the client's own reconnect timer (reconnectPeriod) fires: it emits
\* 'reconnect', which setupReconnection listens to on one client, and
\* connects again
ClientReconnect(c) ==
    /\ c \in 1..Len(clients)
    /\ clients[c].status = "closed"
    /\ failedInARow >= maxMqttReconnectAttempts => attemptsPastCap < MaxPastCap
    /\ clients' = [clients EXCEPT ![c].status = "connecting"]
    /\ mqttReconnectAttempts' = IF reconnectListener = c
                                THEN mqttReconnectAttempts + 1
                                ELSE mqttReconnectAttempts
    /\ attemptsPastCap' = IF failedInARow >= maxMqttReconnectAttempts
                          THEN attemptsPastCap + 1 ELSE attemptsPastCap
    /\ UNCHANGED <<mqttIsConnected, reconnectInProgress, connectionPromise, loops,
                   initialize, reconnectListener, mqttMaxLogged, failedInARow>>

\* the five-second wait of handleReconnection call l is over
LoopWakes(l) ==
    /\ l \in 1..Len(loops)
    /\ loops[l].pc = "sleeping"
    /\ WithinBounds(Handler)
    /\ LET r == Iterate(Handler)
       IN  /\ Store(r.m)
           /\ loops' = IF r.pc = "done"
                       THEN SelectSeq([i \in 1..Len(loops) |->
                                          IF i = l THEN [loops[i] EXCEPT !.pc = "done"]
                                          ELSE loops[i]],
                                      LAMBDA x : x.pc # "done")
                       ELSE [loops EXCEPT ![l] = [pc |-> r.pc, awaits |-> r.awaits]]
    /\ UNCHANGED <<initialize, reconnectListener, failedInARow>>

\* the callback of the subscribe initialize() awaits; setupReconnection then
\* registers the 'reconnect' listener on the current client
SubscribeSettled ==
    /\ initialize = "subscribing"
    /\ initialize' = "ready"
    /\ reconnectListener' = Len(clients)
    /\ UNCHANGED <<mqttIsConnected, mqttReconnectAttempts, reconnectInProgress,
                   connectionPromise, clients, loops, mqttMaxLogged, failedInARow,
                   attemptsPastCap>>

\* ------------------------------------------------------- command frames
\* a hex string is a sequence of one-character strings
HexLower == << "0", "1", "2", "3", "4", "5", "6", "7", "8", "9",
               "a", "b", "c", "d", "e", "f" >>
HexUpper == << "0", "1", "2", "3", "4", "5", "6", "7", "8", "9",
               "A", "B", "C", "D", "E", "F" >>

\* the value of a hex digit of either case; NaN for any other character
NaN == -1
DigitValue(ch) ==
    IF \E i \in 1..16 : ch \in {HexLower[i], HexUpper[i]}
    THEN (CHOOSE i \in 1..16 : ch \in {HexLower[i], HexUpper[i]}) - 1
    ELSE NaN

RECURSIVE toString16(_)
\* Number.prototype.toString(16) of a number that is not NaN
toString16(n) ==
    IF n < 16 THEN << HexLower[n + 1] >>
    ELSE Append(toString16(n \div 16), HexLower[(n % 16) + 1])

\* parseInt(byte, 16) of a chunk of one or two characters: the value of its
\* longest prefix of hex digits, NaN when it has none
parseInt16(byte) ==
    IF DigitValue(byte[1]) = NaN THEN NaN
    ELSE IF Len(byte) = 1 \/ DigitValue(byte[2]) = NaN THEN DigitValue(byte[1])
    ELSE 16 * DigitValue(byte[1]) + DigitValue(byte[2])

\* str.match(/.{1,2}/g) of a string that is not empty: chunks of two
\* characters, the last of one when the length is odd (the match of the
\* empty string is null)
match2(str) ==
    [i \in 1..((Len(str) + 1) \div 2) |->
        SubSeq(str, 2 * i - 1, IF 2 * i <= Len(str) THEN 2 * i ELSE Len(str))]

\* str.slice(-2)
sliceLast2(str) == IF Len(str) <= 2 THEN str ELSE SubSeq(str, Len(str) - 1, Len(str))

\* what a call that raises a TypeError gives
TypeError == << "TypeError" >>

calculateChecksum_wholeMessage(message) ==
    IF message = <<>> THEN << "0", "0" >>
    ELSE LET bytes == [i \in 1..Len(match2(message)) |-> parseInt16(match2(message)[i])]
         IN  sliceLast2(toString16(SumBytes(bytes)))

\* Telenot.calculateChecksum: '00' for the empty message; otherwise reduce
\* over message.slice(8).match(/.{1,2}/g), which is null (and reduce raises)
\* when nothing follows the first 8 characters; a NaN among the parsed
\* chunks makes the sum NaN, rendered 'NaN' and sliced to 'aN'
calculateChecksum(message) ==
    IF message = <<>> THEN << "0", "0" >>
    ELSE LET rest == SubSeq(message, 9, Len(message))
             bytes == [i \in 1..Len(match2(rest)) |-> parseInt16(match2(rest)[i])]
         IN  IF rest = <<>> THEN TypeError
             ELSE IF \E i \in 1..Len(bytes) : bytes[i] = NaN THEN << "a", "N" >>
             ELSE sliceLast2(toString16(SumBytes(bytes)))

\* config.Telenot.COMMAND_SB_STATE_ON, '680909687301050200'
COMMAND_SB_STATE_ON ==
    << "6", "8", "0", "9", "0", "9", "6", "8", "7", "3", "0", "1", "0", "5",
       "0", "2", "0", "0" >>

createCommandMessage_noPad(address, baseHex, commandHex) ==
    IF address < 1 \/ address > 8 THEN << "e", "r", "r", "o", "r" >>
    ELSE LET hex == toString16(baseHex + address * 8)
             msg == COMMAND_SB_STATE_ON \o hex \o << "0", "2" >> \o commandHex
         IN  msg \o calculateChecksum(msg) \o << "1", "6" >>

\* Telenot.createCommandMessage: the string 'error' for an address outside
\* 1..8, otherwise the frame as a hex string
createCommandMessage(address, baseHex, commandHex) ==
    IF address < 1 \/ address > 8 THEN << "e", "r", "r", "o", "r" >>
    ELSE LET hex == toString16(baseHex + address * 8)
             msg == COMMAND_SB_STATE_ON \o << "0" >> \o hex \o << "0", "2" >> \o commandHex
         IN  msg \o calculateChecksum(msg) \o << "1", "6" >>

\* Telenot.hexToBytes of a string that is not empty
hexToBytes(hex) == [i \in 1..Len(match2(hex)) |-> parseInt16(match2(hex)[i])]

\* Buffer.from(array): every element is taken modulo 256, NaN as 0
BufferFrom(array) ==
    [i \in 1..Len(array) |-> IF array[i] = NaN THEN 0 ELSE array[i] % 256]

\* disarmArea, intArmArea, extArmArea and resetArmArea differ in the base and
\* the code they hand to createCommandMessage
ArmOperations == {"disarmArea", "intArmArea", "extArmArea", "resetArmArea"}

commandBase(op) ==
    CASE op = "disarmArea" -> 1320
      [] op = "intArmArea" -> 1321
      [] op = "extArmArea" -> 1322
      [] op = "resetArmArea" -> 1323

commandCode(op) ==
    CASE op = "disarmArea" -> << "E", "1" >>
      [] op = "intArmArea" -> << "6", "2" >>
      [] op = "extArmArea" -> << "6", "1" >>
      [] op = "resetArmArea" -> << "5", "2" >>

\* Telenot.sendCommand up to the socket.write of sendData: the promise is
\* rejected for an empty command and for a socket that is not connected;
\* otherwise the bytes of the command are handed to the socket and the
\* promise waits for the callback of the write
sendCommand_queues(command, action) ==
    [action |-> action, command |-> command,
     bytes |-> IF command = <<>> THEN <<>> ELSE BufferFrom(hexToBytes(command)),
     outcome |-> IF command = <<>> THEN "invalid" ELSE "writing"]

sendCommand(command, action) ==
    [action |-> action, command |-> command,
     bytes |-> IF command = <<>> \/ ~isConnected
               THEN <<>> ELSE BufferFrom(hexToBytes(command)),
     outcome |-> IF command = <<>> THEN "invalid"
                 ELSE IF ~isConnected THEN "not connected"
                 ELSE "writing"]

\* the sendCommand call of an arm operation for an area address; the
\* operation drops the promise it gets, so no handler is ever attached to it
ArmCall(op, address) ==
    [address |-> address, handled |-> FALSE] @@
    sendCommand(createCommandMessage(address, commandBase(op), commandCode(op)), op)

\* disarmArea(address), intArmArea(address), extArmArea(address) or
\* resetArmArea(address) called on the Telenot service
ArmArea(op, address) ==
    /\ Len(sends) < MaxCommands
    /\ sends' = Append(sends, ArmCall(op, address))
    /\ UNCHANGED <<frameVars, isConnected, tcpVars, mqttVars, commands, call>>

\* the callback of the socket.write a sendCommand call waits for; a socket
\* completes its writes in the order they were made
WriteSettled(k, err) ==
    /\ k \in 1..Len(sends)
    /\ sends[k].outcome = "writing"
    /\ \A j \in 1..(k - 1) : sends[j].outcome # "writing"
    /\ sends' = [sends EXCEPT ![k].outcome = IF err THEN "write failed" ELSE "resolved"]
    /\ UNCHANGED <<frameVars, isConnected, tcpVars, mqttVars, commands, call>>

\* -------------------------------------------------------- CommandHandler
\* null, which a property lookup turns into the key 'null'
Null == "null"

\* the command strings the command topic delivers in the model: the five
\* known ones, three that are no property of any object, and two that name
\* properties every object inherits
Commands == {"DISARM", "ARM_HOME", "ARM_AWAY", "ARM_NIGHT", "RESET",
             "INVALID_COMMAND", "", Null, "constructor", "__proto__"}

\* VirtualStateHandler.mapToInternalState: the flag it leaves and the
\* command it returns
mapToInternalState(command) ==
    IF command = "ARM_NIGHT"
    THEN [virtualNightMode |-> TRUE, internal |-> "ARM_HOME"]
    ELSE [virtualNightMode |-> FALSE, internal |-> command]

\* VirtualStateHandler.mapToExternalState
mapToExternalState(internalState, nightMode) ==
    IF internalState = "armed_home" /\ nightMode THEN "armed_night" ELSE internalState

commandMap_armHomeIsAway(internalCommand) ==
    CASE internalCommand = "DISARM" -> [kind |-> "own", op |-> "disarmArea"]
      [] internalCommand = "ARM_HOME" -> [kind |-> "own", op |-> "extArmArea"]
      [] internalCommand = "ARM_AWAY" -> [kind |-> "own", op |-> "extArmArea"]
      [] internalCommand = "ARM_NIGHT" -> [kind |-> "own", op |-> "intArmArea"]
      [] internalCommand = "RESET" -> [kind |-> "own", op |-> "resetArmArea"]
      [] internalCommand = "constructor" -> [kind |-> "function", op |-> "none"]
      [] internalCommand = "__proto__" -> [kind |-> "object", op |-> "none"]
      [] OTHER -> [kind |-> "undefined", op |-> "none"]

\* this._commandMap[internalCommand]: an own entry with the arm operation it
\* calls for area 1, a property the object literal inherits from
\* Object.prototype (the function 'constructor', the object '__proto__'), or
\* undefined
commandMap(internalCommand) ==
    CASE internalCommand = "DISARM" -> [kind |-> "own", op |-> "disarmArea"]
      [] internalCommand = "ARM_HOME" -> [kind |-> "own", op |-> "intArmArea"]
      [] internalCommand = "ARM_AWAY" -> [kind |-> "own", op |-> "extArmArea"]
      [] internalCommand = "ARM_NIGHT" -> [kind |-> "own", op |-> "intArmArea"]
      [] internalCommand = "RESET" -> [kind |-> "own", op |-> "resetArmArea"]
      [] internalCommand = "constructor" -> [kind |-> "function", op |-> "none"]
      [] internalCommand = "__proto__" -> [kind |-> "object", op |-> "none"]
      [] OTHER -> [kind |-> "undefined", op |-> "none"]

\* CommandHandler.handleCommand: a truthy action is called and true returned
\* (the call raises when the action is no function), false otherwise; the
\* entries DISARM and ARM_NIGHT set the flag again before their operation
handleCommand(command) ==
    /\ Len(commands) < MaxCommands
    /\ Len(sends) < MaxCommands
    /\ LET mapped == mapToInternalState(command)
           action == commandMap(mapped.internal)
       IN  /\ virtualNightMode' =
                  IF action.kind = "own" /\ mapped.internal = "DISARM" THEN FALSE
                  ELSE IF action.kind = "own" /\ mapped.internal = "ARM_NIGHT" THEN TRUE
                  ELSE mapped.virtualNightMode
           /\ sends' = IF action.kind = "own"
                       THEN Append(sends, ArmCall(action.op, 1))
                       ELSE sends
           /\ commands' = Append(commands,
                  [command |-> command,
                   internal |-> mapped.internal,
                   returned |-> CASE action.kind = "undefined" -> "false"
                                  [] action.kind = "object" -> "raised"
                                  [] OTHER -> "true",
                   ops |-> IF action.kind = "own"
                           THEN << [op |-> action.op, address |-> 1] >>
                           ELSE <<>>,
                   send |-> IF action.kind = "own" THEN Len(sends) + 1 ELSE 0])
    /\ UNCHANGED <<statesPrevious, lastPublishedStates, handlers, pubLog, parsers,
                   received, readyToSendData, isConnected, tcpVars, mqttVars, call>>

\* ------------------------------------------------------------ getMsgType
\* the characters of the strings handed to getMsgType in the model: the hex
\* digits of both cases and two characters that are no hex digit
Chars == {HexLower[i] : i \in 1..16} \cup {HexUpper[i] : i \in 1..16} \cup {"|", "#"}

\* String.prototype.toUpperCase and toLowerCase on these characters
toUpperCase(str) ==
    [i \in 1..Len(str) |->
        IF \E d \in 1..16 : HexLower[d] = str[i]
        THEN HexUpper[CHOOSE d \in 1..16 : HexLower[d] = str[i]] ELSE str[i]]

toLowerCase(str) ==
    [i \in 1..Len(str) |->
        IF \E d \in 1..16 : HexUpper[d] = str[i]
        THEN HexLower[CHOOSE d \in 1..16 : HexUpper[d] = str[i]] ELSE str[i]]

\* a regular expression anchored at the start is a sequence of character
\* sets, one for each character it consumes, and a flag telling whether it
\* ends in .*16$
\* a string of digits, a letter given by its value
Str(digits) == [i \in 1..Len(digits) |-> HexLower[digits[i] + 1]]
\* a run of literal characters
Lit(digits) == [i \in 1..Len(digits) |-> {Str(digits)[i]}]
\* [0-9A-Fa-f]{n}
HexClass(n) == [i \in 1..n |-> {HexLower[d] : d \in 1..16} \cup {HexUpper[d] : d \in 1..16}]
\* a class written [x|X], which holds the bar as well
Alt(lower, upper) == << {lower, "|", upper} >>
\* .{n}
Dot(n) == [i \in 1..n |-> Chars]

\* 2[c|C]2[c|C]68730205020 and 1[A|a]1[A|a]68730205020000, the starts of the
\* system state and malfunction patterns after their 68
StartC == Lit(<<2>>) \o Alt("c", "C") \o Lit(<<2>>) \o Alt("c", "C")
          \o Lit(<<6, 8, 7, 3, 0, 2, 0, 5, 0, 2, 0>>)
StartA == Lit(<<1>>) \o Alt("a", "A") \o Lit(<<1>>) \o Alt("a", "A")
          \o Lit(<<6, 8, 7, 3, 0, 2, 0, 5, 0, 2, 0, 0, 0, 0>>)

Pattern(atoms, tail, type) == [atoms |-> atoms, tail |-> tail, type |-> type]

\* the tests of matchHexStrToMsgType in the order the code makes them
Patterns ==
    << Pattern(Lit(<<6, 8, 0, 2, 0, 2, 6, 8, 4, 0, 0, 2, 4, 2, 1, 6>>), FALSE, "SEND_NORM"),
       Pattern(Lit(<<6, 8, 0, 2, 0, 2, 6, 8, 0, 0, 0, 2, 0, 2, 1, 6>>), FALSE, "CONF_ACK"),
       Pattern(Lit(<<6, 8>>) \o HexClass(4) \o Lit(<<6, 8, 7, 3, 0, 2>>) \o HexClass(2)
               \o Lit(<<2, 4, 0, 0, 0, 0, 0, 0, 0, 1>>), TRUE, "MP"),
       Pattern(Lit(<<6, 8>>) \o HexClass(4) \o Lit(<<6, 8, 7, 3, 0, 2>>) \o HexClass(2)
               \o Lit(<<2, 4, 0, 0, 0, 5, 0, 0, 0, 2>>), TRUE, "SB"),
       Pattern(Lit(<<6, 8>>) \o StartC \o Lit(<<0, 0, 5, 3, 1, 0, 1, 6, 2>>), FALSE, "SYS_INT_ARMED"),
       Pattern(Lit(<<6, 8>>) \o StartC \o Lit(<<0, 0, 5, 3, 2, 0, 1, 6, 1>>), FALSE, "SYS_EXT_ARMED"),
       Pattern(Lit(<<6, 8>>) \o StartC \o Lit(<<0, 0, 5, 3, 0, 0, 1>>) \o Alt("e", "E")
               \o Lit(<<1>>), FALSE, "SYS_DISARMED"),
       Pattern(Lit(<<6, 8>>) \o StartC \o Lit(<<0, 0, 5, 4, 0>>), FALSE, "ALARM"),
       Pattern(Lit(<<6, 8>>) \o HexClass(2) \o HexClass(2)
               \o Lit(<<6, 8, 7, 3, 0, 2, 0, 5, 0, 2, 0, 1, 0, 0, 2, 11>>), FALSE, "ALARM"),
       Pattern(Lit(<<6, 8>>) \o StartC \o Lit(<<1, 0, 0, 1, 0, 0, 1>>), FALSE, "INTRUSION"),
       Pattern(Lit(<<6, 8>>) \o StartA \o Lit(<<1, 4, 0, 1>>), FALSE, "BATTERY_MALFUNCTION"),
       Pattern(Lit(<<6, 8>>) \o StartA \o Lit(<<1, 5, 0, 1>>), FALSE, "POWER_OUTAGE"),
       Pattern(Lit(<<6, 8>>) \o StartA \o Lit(<<1, 3, 0, 1>>), FALSE, "OPTICAL_FLASHER_MALFUNCTION"),
       Pattern(Lit(<<6, 8>>) \o StartA \o Lit(<<1, 1, 0, 1>>), FALSE, "HORN_1_MALFUNCTION"),
       Pattern(Lit(<<6, 8>>) \o StartA \o Lit(<<1, 2, 0, 1>>), FALSE, "HORN_2_MALFUNCTION"),
       Pattern(Lit(<<6, 8>>) \o StartA \o Lit(<<1, 7, 0, 1>>), FALSE, "COM_FAULT"),
       Pattern(Lit(<<6, 8>>) \o HexClass(4) \o Lit(<<6, 8, 7, 3, 0, 2>>) \o HexClass(2)
               \o HexClass(4) \o Alt("f", "F") \o Alt("f", "F") \o Alt("f", "F")
               \o Alt("f", "F") \o Lit(<<0, 1, 5, 3>>), TRUE, "RESTART"),
       Pattern(Lit(<<6, 8>>) \o Dot(2) \o Lit(<<6, 8, 7, 3, 0>>), FALSE, "SEND_NDAT") >>

\* RegExp.prototype.test of a pattern on a string
Test(pattern, hexStr) ==
    /\ Len(hexStr) >= Len(pattern.atoms) + (IF pattern.tail THEN 2 ELSE 0)
    /\ \A i \in 1..Len(pattern.atoms) : hexStr[i] \in pattern.atoms[i]
    /\ pattern.tail => hexStr[Len(hexStr) - 1] = "1" /\ hexStr[Len(hexStr)] = "6"

\* SocketHandler.matchHexStrToMsgType: the type of the first pattern that
\* matches, or null
matchHexStrToMsgType(hexStr) ==
    IF \E i \in 1..Len(Patterns) : Test(Patterns[i], hexStr)
    THEN Patterns[CHOOSE i \in 1..Len(Patterns) :
                      /\ Test(Patterns[i], hexStr)
                      /\ \A j \in 1..(i - 1) : ~Test(Patterns[j], hexStr)].type
    ELSE "null"

\* START_TO_MSG_TYPE[key]: the keys are '68020268' and '682C2C68'
START_TO_MSG_TYPE(key) ==
    IF key = Str(<<6, 8, 0, 2, 0, 2, 6, 8>>) THEN "SEND_NORM"
    ELSE IF key = << "6", "8", "2", "C", "2", "C", "6", "8" >> THEN "MP"
    ELSE "undefined"

\* hexStr.substring(0, 8)
substring8(hexStr) == SubSeq(hexStr, 1, IF Len(hexStr) < 8 THEN Len(hexStr) ELSE 8)

getMsgType_noDefault(hexStr) ==
    IF matchHexStrToMsgType(hexStr) # "null" THEN matchHexStrToMsgType(hexStr)
    ELSE START_TO_MSG_TYPE(substring8(hexStr))

\* SocketHandler.getMsgType
getMsgType(hexStr) ==
    LET msgTypeFull == matchHexStrToMsgType(hexStr)
        msgType == START_TO_MSG_TYPE(substring8(hexStr))
    IN  IF msgTypeFull # "null" THEN msgTypeFull
        ELSE IF msgType # "undefined" THEN msgType
        ELSE "INVALID"

\* --------------------------------------------------- pure applications
\* area addresses handed to the arm operations
Addresses == 0..9

\* Buffer.toString('hex') with the digits of one case
HexOfBytes(bytes, digits) ==
    [i \in 1..(2 * Len(bytes)) |->
        IF i % 2 = 1 THEN digits[(bytes[(i + 1) \div 2] \div 16) + 1]
        ELSE digits[(bytes[i \div 2] % 16) + 1]]

\* messages handed to calculateChecksum: the starts of the command header,
\* the header followed by one character, and the header followed by up to
\* MaxBody bytes in either case
BodyBytes == {0, 5, 15, 16, 171, 255}
Header == SubSeq(COMMAND_SB_STATE_ON, 1, 8)
Messages ==
    {SubSeq(Header, 1, n) : n \in 0..8}
    \cup {Header \o << ch >> : ch \in {"0", "7", "c"}}
    \cup UNION {{Header \o HexOfBytes(body, digits) :
                    body \in [1..n -> BodyBytes], digits \in {HexLower, HexUpper}} :
                n \in 1..MaxBody}

\* a string a pattern matches: the smallest character of every set but the
\* bar, a hex class giving a letter, and 16 at the end where the pattern
\* asks for it
Instance(pattern) ==
    [i \in 1..Len(pattern.atoms) |->
        IF Cardinality(pattern.atoms[i]) = 1
        THEN CHOOSE ch \in pattern.atoms[i] : TRUE
        ELSE IF "c" \in pattern.atoms[i] /\ Cardinality(pattern.atoms[i]) > 3 THEN "c"
        ELSE CHOOSE ch \in pattern.atoms[i] : ch \in {HexLower[d] : d \in 11..16}]
    \o (IF pattern.tail THEN << "1", "6" >> ELSE <<>>)

\* strings handed to getMsgType: for every pattern a string it matches, the
\* same with a bar for its first letter, with a non-hex character appended
\* and cut to its first 8 characters, each in both cases; content frames as
\* received; and strings no pattern was written for
HexStrings ==
    LET instances == {Instance(Patterns[i]) : i \in 1..Len(Patterns)}
        barred == {[s EXCEPT ![4] = "|"] : s \in instances}
        base == instances \cup barred
                \cup {s \o << "#" >> : s \in instances}
                \cup {substring8(s) : s \in instances}
                \cup {HexOfBytes(FrameBytes(type, << 1 >>), HexLower) : type \in ContentTypes}
                \cup {<<>>, Str(<<1, 2, 3, 4, 5, 6, 7, 8>>), Str(<<10, 11, 12, 13, 14, 15>>),
                      Str(<<6, 8, 0, 2, 0, 2, 6, 8, 4, 0>>)}
    IN  {toLowerCase(s) : s \in base} \cup {toUpperCase(s) : s \in base}

\* one call of createCommandMessage as an arm operation makes it
ApplyCreateCommandMessage(op, address) ==
    /\ call' = [fn |-> "createCommandMessage", op |-> op, address |-> address,
                out |-> createCommandMessage(address, commandBase(op), commandCode(op))]
    /\ UNCHANGED <<frameVars, isConnected, tcpVars, mqttVars, cmdVars>>

ApplyCalculateChecksum(message) ==
    /\ call' = [fn |-> "calculateChecksum", message |-> message,
                out |-> calculateChecksum(message)]
    /\ UNCHANGED <<frameVars, isConnected, tcpVars, mqttVars, cmdVars>>

ApplyGetMsgType(hexStr) ==
    /\ call' = [fn |-> "getMsgType", hexStr |-> hexStr, out |-> getMsgType(hexStr)]
    /\ UNCHANGED <<frameVars, isConnected, tcpVars, mqttVars, cmdVars>>

ApplyMapBinaryValue(value, inverted) ==
    /\ call' = [fn |-> "mapBinaryValue", value |-> value, inverted |-> inverted,
                out |-> mapBinaryValue(value, inverted)]
    /\ UNCHANGED <<frameVars, isConnected, tcpVars, mqttVars, cmdVars>>

\* the byte values a frame can carry
Bytes == 0..255

ApplyReverseBinary(num) ==
    /\ call' = [fn |-> "reverseBinary", num |-> num, out |-> reverseBinary(num)]
    /\ UNCHANGED <<frameVars, isConnected, tcpVars, mqttVars, cmdVars>>

\* ------------------------------------------------------- specifications
\* the state once the components are constructed, initialize() has called
\* connect() and setupConnections has called createConnection
Init ==
    /\ statesPrevious = [a \in Areas |-> NoSnapshot]
    /\ lastPublishedStates = [t \in Topics |-> "none"]
    /\ handlers = <<>>
    /\ pubLog = <<>>
    /\ parsers = <<>>
    /\ received = [a \in Areas |-> NoSnapshot]
    /\ readyToSendData = FALSE
    /\ virtualNightMode = FALSE
    /\ isConnected = FALSE
    /\ reconnectAttempts = 0
    /\ reconnectTimeout = FALSE
    /\ sockets = << NewSocket(TRUE) >>
    /\ maxLogged = 0
    /\ shutdown = FALSE
    /\ mqttIsConnected = FALSE
    /\ mqttReconnectAttempts = 0
    /\ reconnectInProgress = FALSE
    /\ connectionPromise = 1
    /\ clients = << NewClient >>
    /\ loops = <<>>
    /\ initialize = "connecting"
    /\ reconnectListener = 0
    /\ mqttMaxLogged = 0
    /\ failedInARow = 0
    /\ attemptsPastCap = 0
    /\ commands = <<>>
    /\ sends = <<>>
    /\ call = [fn |-> "none"]

\* the first socket connects
Connected == SocketConnect(1) /\ UNCHANGED <<frameVars, mqttVars, cmdVars, call>>

Frames == UNCHANGED <<isConnected, tcpVars, mqttVars, cmdVars, call>>

\* content frames (MP, SB) arriving at any time, also while the publishes of
\* earlier frames are in flight
NextState ==
    \/ \E type \in ContentTypes : \E payload \in Payloads(AreaOf(type)) :
          handleData(type, payload) /\ Frames
    \/ \E k \in 1..MaxFrames : \E ok \in BOOLEAN : PublishSettled(k, ok) /\ Frames
    \/ Connected

SpecState == Init /\ [][NextState]_vars

Idle == \A k \in 1..Len(handlers) : handlers[k].pc = "done"

\* content frames spaced so that each is handled to the end before the next
\* arrives
NextSeq ==
    \/ /\ Idle
       /\ \E type \in ContentTypes : \E payload \in Payloads(AreaOf(type)) :
             handleData(type, payload) /\ Frames
    \/ \E k \in 1..MaxFrames : \E ok \in BOOLEAN : PublishSettled(k, ok) /\ Frames
    \/ Connected

SpecSeq == Init /\ [][NextSeq]_vars

\* frames of every type, a content frame with one sensor byte
NextParse ==
    \/ /\ Len(parsers) < MaxParse
       /\ \E type \in MsgTypes : \E b0 \in {0, 1} : handleData(type, <<b0>>) /\ Frames
    \/ \E k \in 1..MaxParse : \E ok \in BOOLEAN : PublishSettled(k, ok) /\ Frames
    \/ \E k \in 1..MaxParse : \E ok \in BOOLEAN : ParserPublishSettled(k, ok) /\ Frames
    \/ Connected

SpecParse == Init /\ [][NextParse]_vars

\* the events of the TCP sockets and the reconnect timer
NextTcp ==
    \/ \E s \in 1..MaxSockets : SocketConnect(s) /\ UNCHANGED <<frameVars, mqttVars, cmdVars, call>>
    \/ \E s \in 1..MaxSockets : SocketError(s) /\ UNCHANGED <<frameVars, mqttVars, cmdVars, call>>
    \/ \E s \in 1..MaxSockets : SocketClose(s) /\ UNCHANGED <<frameVars, mqttVars, cmdVars, call>>
    \/ \E s \in 1..MaxSockets : SocketTimeout(s) /\ UNCHANGED <<frameVars, mqttVars, cmdVars, call>>
    \/ ReconnectTimerFires /\ UNCHANGED <<frameVars, mqttVars, cmdVars, call>>

SpecTcp == Init /\ [][NextTcp]_vars

\* the events of the TCP sockets with one closeConnection call at any time
NextShutdown ==
    \/ NextTcp
    \/ closeConnection /\ UNCHANGED <<frameVars, mqttVars, cmdVars, call>>

SpecShutdown == Init /\ [][NextShutdown]_vars

Mqtt == UNCHANGED <<frameVars, isConnected, tcpVars, cmdVars, call>>

\* the events of the MQTT clients, the waits of the reconnection loops and
\* the subscribe callback
NextMqtt ==
    \/ \E c \in 1..MaxClients : ClientConnect(c) /\ Mqtt
    \/ \E c \in 1..MaxClients : ClientError(c) /\ Mqtt
    \/ \E c \in 1..MaxClients : ClientClose(c) /\ Mqtt
    \/ \E c \in 1..MaxClients : ClientOffline(c) /\ Mqtt
    \/ \E c \in 1..MaxClients : ClientReconnect(c) /\ Mqtt
    \/ \E l \in 1..MaxLoops : LoopWakes(l) /\ Mqtt
    \/ SubscribeSettled /\ Mqtt

SpecMqtt == Init /\ [][NextMqtt]_vars

\* the arm operations called with any address, and the write callbacks of
\* their sends
NextArm ==
    \/ \E op \in ArmOperations : \E address \in Addresses : ArmArea(op, address)
    \/ \E k \in 1..MaxCommands : \E err \in BOOLEAN : WriteSettled(k, err)
    \/ Connected

SpecArm == Init /\ [][NextArm]_vars

\* commands from the command topic, the write callbacks of their sends and
\* the system state frames that concern the virtual night mode, with an
\* MQTT broker that accepts every publish
NextCmd ==
    \/ \E command \in Commands : handleCommand(command)
    \/ \E k \in 1..MaxCommands : \E err \in BOOLEAN : WriteSettled(k, err)
    \/ /\ Len(parsers) < MaxCmdFrames
       /\ \E type \in {"SYS_DISARMED", "SYS_INT_ARMED"} : handleData(type, <<>>) /\ Frames
    \/ \E k \in 1..MaxCmdFrames : ParserPublishSettled(k, TRUE) /\ Frames
    \/ Connected

SpecCmd == Init /\ [][NextCmd]_vars

Link == UNCHANGED <<frameVars, mqttVars, cmdVars, call>>

\* the events of up to MaxLinkSockets TCP sockets with the frames they
\* deliver and the disarm commands sent meanwhile, MaxLinkEvents frames and
\* commands in all
NextLink ==
    \/ \E s \in 1..MaxLinkSockets : SocketConnect(s) /\ Link
    \/ \E s \in 1..MaxLinkSockets : SocketError(s) /\ Link
    \/ \E s \in 1..MaxLinkSockets : SocketClose(s) /\ Link
    \/ \E s \in 1..MaxLinkSockets : SocketTimeout(s) /\ Link
    \/ Len(sockets) < MaxLinkSockets /\ ReconnectTimerFires /\ Link
    \/ /\ Len(parsers) + Len(sends) < MaxLinkEvents
       /\ \E s \in 1..MaxLinkSockets : \E type \in {"SEND_NORM", "SB"} :
             SocketData(s, type, <<1>>)
    \/ Len(parsers) + Len(sends) < MaxLinkEvents /\ ArmArea("disarmArea", 1)
    \/ \E k \in 1..MaxLinkEvents : \E ok \in BOOLEAN : PublishSettled(k, ok) /\ Frames
    \/ \E k \in 1..MaxLinkEvents : \E err \in BOOLEAN : WriteSettled(k, err)

SpecLink == Init /\ [][NextLink]_vars

\* frames of every type and commands from the command topic in any order,
\* MaxEvents of them in all, with the callbacks of their publishes and
\* writes
NextMix ==
    \/ /\ Len(parsers) + Len(commands) < MaxEvents
       /\ \E type \in MsgTypes : \E b0 \in {0, 1} : handleData(type, <<b0>>) /\ Frames
    \/ /\ Len(parsers) + Len(commands) < MaxEvents
       /\ \E command \in Commands : handleCommand(command)
    \/ \E k \in 1..MaxEvents : \E ok \in BOOLEAN : PublishSettled(k, ok) /\ Frames
    \/ \E k \in 1..MaxEvents : \E ok \in BOOLEAN : ParserPublishSettled(k, ok) /\ Frames
    \/ \E k \in 1..MaxEvents : \E err \in BOOLEAN : WriteSettled(k, err)
    \/ Connected

SpecMix == Init /\ [][NextMix]_vars

\* the pure functions of the command encoder and of the frame classifier,
\* applied to one input after another
NextPure ==
    \/ \E op \in ArmOperations : \E address \in Addresses :
          ApplyCreateCommandMessage(op, address)
    \/ \E message \in Messages : ApplyCalculateChecksum(message)
    \/ \E hexStr \in HexStrings : ApplyGetMsgType(hexStr)
    \/ \E value \in {"0", "1"} : \E inverted \in BOOLEAN :
          ApplyMapBinaryValue(value, inverted)
    \/ \E num \in Bytes : ApplyReverseBinary(num)

SpecPure == Init /\ [][NextPure]_vars

\* ------------------------------------------------------------------ claims
IsCall(e) == e.res \in {"pending", "ok", "failed"}

\* the handleStateChange call that wrote log entry e
HandlerOf(e) == CHOOSE k \in 1..Len(handlers) : handlers[k].frame = e.frame

\* the bit of a catalog position in a byte map, "none" when the map does not
\* carry the position's byte
BitOf(byteMap, position) ==
    IF MapGet(byteMap, position.hex \div 8) = -1 THEN "none"
    ELSE reverseBinary(MapGet(byteMap, position.hex \div 8))[(position.hex % 8) + 1]

\* C1: every parseData call that has ended returned the acknowledgement
\* frame 68 02 02 68 00 02 02 16, whatever the frame's type and whether or not
\* a publish it triggered failed.
C1_parseDataReturnsAck ==
    \A k \in 1..Len(parsers) :
        parsers[k].pc # "publishing" =>
            parsers[k].ret = << 104, 2, 2, 104, 0, 2, 2, 22 >>

\* a frame whose publish failed has been answered with the acknowledgement
C1_witness ==
    \E k \in 1..Len(parsers) :
        /\ parsers[k].pc = "done"
        /\ parsers[k].pubFailed
        /\ parsers[k].ret = CONF_ACK
        /\ parsers[k].sent

\* two publishState evaluations in a row on one topic
InARow(i, j) ==
    /\ i < j
    /\ pubLog[i].topic = pubLog[j].topic
    /\ \A m \in (i + 1)..(j - 1) : pubLog[m].topic # pubLog[i].topic

\* C2 as amended: when the first of two evaluations in a row on a topic was
\* published successfully, the second is suppressed if it computes the same
\* state and is published if it computes a different one.
C2_dedupAfterSuccess ==
    \A i, j \in 1..Len(pubLog) :
        InARow(i, j) /\ pubLog[i].res = "ok" =>
            /\ pubLog[i].state = pubLog[j].state => pubLog[j].res = "suppressed"
            /\ pubLog[i].state # pubLog[j].state => IsCall(pubLog[j])

\* the same state twice in a row, the first published, the second suppressed;
\* and two different states in a row, both published
C2_witness ==
    /\ \E i, j \in 1..Len(pubLog) :
          /\ InARow(i, j) /\ pubLog[i].res = "ok"
          /\ pubLog[i].state = pubLog[j].state /\ pubLog[j].res = "suppressed"
    /\ \E i, j \in 1..Len(pubLog) :
          /\ InARow(i, j) /\ pubLog[i].res = "ok"
          /\ pubLog[i].state # pubLog[j].state /\ pubLog[j].res = "ok"

\* C2 as stated: the same state twice in a row (the first published
\* successfully) gives one publish call, and a state that follows the publish
\* call of a different state gives a second publish call.
C2_asStated ==
    \A i, j \in 1..Len(pubLog) :
        InARow(i, j) =>
            /\ pubLog[i].res = "ok" /\ pubLog[i].state = pubLog[j].state
                  => pubLog[j].res = "suppressed"
            /\ IsCall(pubLog[i]) /\ pubLog[i].state # pubLog[j].state
                  => IsCall(pubLog[j])

C4_onlyChangedBytes ==
    \A i \in 1..Len(pubLog) :
        LET e == pubLog[i]
            h == handlers[HandlerOf(e)]
            position == Positions(h.area)[e.pos]
            byteIndex == position.hex \div 8
            old == MapGet(h.prevMap, byteIndex)
        IN  IsCall(e) /\ ~h.first =>
                /\ MapGet(h.byteMap, byteIndex) # old
                /\ BitOf(h.byteMap, position) #
                      (IF old = -1 THEN "0" ELSE BitOf(h.prevMap, position))

\* a later frame handled to the end that changed the byte of one named
\* position, which was published, and left the byte of another unchanged
C4_witness ==
    \E k \in 1..Len(handlers) :
        LET h == handlers[k]
            ps == Positions(h.area)
        IN  /\ ~h.first /\ h.pc = "done"
            /\ \E p, q \in 1..Len(ps) :
                  /\ ps[p].named /\ ps[q].named
                  /\ MapGet(h.byteMap, ps[p].hex \div 8) # MapGet(h.prevMap, ps[p].hex \div 8)
                  /\ \E i \in 1..Len(pubLog) :
                        pubLog[i].frame = h.frame /\ pubLog[i].pos = p /\ IsCall(pubLog[i])
                  /\ MapGet(h.byteMap, ps[q].hex \div 8) = MapGet(h.prevMap, ps[q].hex \div 8)
                  /\ MapGet(h.byteMap, ps[q].hex \div 8) # -1

\* C5 (at rest): once no handleStateChange call is awaiting a publish, the
\* snapshot of every content area is the byte map of the last frame delivered
\* for it.
C5_snapshotIsLastFrame ==
    Idle => \A a \in Areas : statesPrevious[a] = received[a]

\* C6: when the handling of a frame begins, every earlier frame's snapshot
\* update is complete.
C6_mutationBeforeNextFrame ==
    \A j, k \in 1..Len(handlers) :
        j < k => handlers[j].first \/ handlers[j].pc = "done"
\* C7: once maxMqttReconnectAttempts connection attempts in a row have
\* failed, no further MQTT connection attempt is begun.
C7_noAttemptAfterCap ==
    attemptsPastCap = 0

\* C8: the terminal 'Max reconnection attempts reached' error of the TCP
\* transport is logged at most once.
C8_terminalLoggedOnce ==
    maxLogged <= 1

\* C9: at most one handleReconnection call is inside its loop at any time.
C9_oneReconnectionLoop ==
    Len(loops) <= 1

\* C10: the loss events of one TCP socket add at most one attempt to
\* reconnectAttempts.
C10_oneAttemptPerLostConnection ==
    \A s \in 1..Len(sockets) : sockets[s].consumed <= 1
\* C11: the attempt counters stay within their caps: reconnectAttempts in
\* 0..maxReconnectAttempts and mqttReconnectAttempts in
\* 0..maxMqttReconnectAttempts.
C11_countersWithinCaps ==
    /\ reconnectAttempts \in 0..maxReconnectAttempts
    /\ mqttReconnectAttempts \in 0..maxMqttReconnectAttempts

\* C12: an arm operation called with an area address outside 1..8 fails with
\* an invalid-address condition and writes no bytes to the TCP socket.
C12_invalidAddressWritesNothing ==
    \A k \in 1..Len(sends) :
        sends[k].address \notin 1..8 => sends[k].bytes = <<>>

\* the frame an arm operation builds for an area address in 1..8: its bytes,
\* its checksum digits and its terminator
FrameOf(out) == [body |-> hexToBytes(SubSeq(out, 9, Len(out) - 4)),
                 checksum |-> SubSeq(out, Len(out) - 3, Len(out) - 2),
                 terminator |-> SubSeq(out, Len(out) - 1, Len(out))]

IsHexDigit(ch) == DigitValue(ch) # NaN

\* C13: for each of the four operations and every area address in 1..8 the
\* frame createCommandMessage builds ends in 16 and carries, just before it,
\* two hex digits whose value is the sum modulo 256 of the frame bytes after
\* the first 8 hex characters and before the checksum.
C13_checksumOfCommandFrame ==
    call.fn = "createCommandMessage" /\ call.address \in 1..8 =>
        /\ Len(call.out) >= 12
        /\ (Len(call.out) % 2) = 0
        /\ FrameOf(call.out).terminator = << "1", "6" >>
        /\ \A i \in 1..2 : IsHexDigit(FrameOf(call.out).checksum[i])
        /\ parseInt16(FrameOf(call.out).checksum)
               = SumBytes(FrameOf(call.out).body) % 256

\* disarmArea has built a frame for a valid address whose byte sum exceeds
\* 255
C13_witness ==
    /\ call.fn = "createCommandMessage"
    /\ call.address \in 1..8
    /\ call.op = "disarmArea"
    /\ SumBytes(FrameOf(call.out).body) > 255

\* the bytes of the frame a createCommandMessage call returned
BytesOf(out) == BufferFrom(hexToBytes(out))

\* the 9 bytes 68 09 09 68 73 01 05 02 00 every command frame starts with
Preamble == << 104, 9, 9, 104, 115, 1, 5, 2, 0 >>

\* C14 as amended: every command frame built for an area address in 1..8 is
\* 15 bytes long: the 9-byte constant 68 09 09 68 73 01 05 02 00, a two-byte
\* address field holding commandBase + 8 * areaAddress (high byte first),
\* the byte 02, the command-code byte, a 1-byte checksum and the terminator
\* byte 16.
C14_commandFrameLayout ==
    call.fn = "createCommandMessage" /\ call.address \in 1..8 =>
        LET bytes == BytesOf(call.out)
        IN  /\ Len(call.out) = 30
            /\ \A i \in 1..30 : IsHexDigit(call.out[i])
            /\ SubSeq(bytes, 1, 9) = Preamble
            /\ 256 * bytes[10] + bytes[11] = commandBase(call.op) + 8 * call.address
            /\ bytes[12] = 2
            /\ bytes[13] = parseInt16(commandCode(call.op))
            /\ bytes[14] = SumBytes(SubSeq(bytes, 5, 13)) % 256
            /\ bytes[15] = 22

\* resetArmArea has built the frame of area 8, whose address field is 05 6b
C14_witness ==
    /\ call.fn = "createCommandMessage"
    /\ call.op = "resetArmArea"
    /\ call.address = 8
    /\ SubSeq(BytesOf(call.out), 10, 11) = << 5, 107 >>

\* C14 as stated: every command frame built for an area address in 1..8 is
\* the 9-byte constant followed by one address byte, the byte 02, one
\* command-code byte, a 1-byte checksum and the terminator byte 16.
C14_asStated ==
    call.fn = "createCommandMessage" /\ call.address \in 1..8 =>
        LET bytes == BytesOf(call.out)
        IN  /\ Len(bytes) = 14
            /\ SubSeq(bytes, 1, 9) = Preamble
            /\ bytes[11] = 2
            /\ bytes[12] = parseInt16(commandCode(call.op))
            /\ bytes[14] = 22

\* the hex digits of a checksum, or nothing when the call raised
IsTwoHexDigits(out) == Len(out) = 2 /\ \A i \in 1..2 : IsHexDigit(out[i])

\* the bytes of a hex message after its 8-character header
BodyOf(message) ==
    IF Len(message) <= 8 THEN <<>> ELSE hexToBytes(SubSeq(message, 9, Len(message)))

\* C15: for every hex message calculateChecksum returns exactly two hex
\* digits whose value is the sum modulo 256 of the bytes after the
\* 8-character header, '00' when nothing follows the header, and never
\* raises.
C15_checksumTwoDigits ==
    call.fn = "calculateChecksum" =>
        /\ call.out # TypeError
        /\ IsTwoHexDigits(call.out)
        /\ parseInt16(call.out) = SumBytes(BodyOf(call.message)) % 256

\* the commands the command map has an entry for
KnownCommands == {"DISARM", "ARM_HOME", "ARM_AWAY", "ARM_NIGHT", "RESET"}

\* C16: the virtual night flag is set by handling ARM_NIGHT (after which
\* mapToExternalState('armed_home') is armed_night), cleared by handling
\* DISARM, ARM_HOME, ARM_AWAY or RESET (after which it is armed_home) and by
\* processing a SYS_DISARMED frame, and changed by nothing else.
C16_nightFlagFollowsCommands ==
    [][/\ Len(commands') > Len(commands) =>
             LET c == commands'[Len(commands')].command
             IN  /\ c = "ARM_NIGHT" =>
                        /\ virtualNightMode'
                        /\ mapToExternalState("armed_home", virtualNightMode') = "armed_night"
                 /\ c \in KnownCommands \ {"ARM_NIGHT"} =>
                        /\ ~virtualNightMode'
                        /\ mapToExternalState("armed_home", virtualNightMode') = "armed_home"
                 /\ c \notin KnownCommands => virtualNightMode' = virtualNightMode
       /\ Len(parsers') > Len(parsers) =>
             IF parsers'[Len(parsers')].type = "SYS_DISARMED"
             THEN ~virtualNightMode'
             ELSE virtualNightMode' = virtualNightMode
       /\ Len(commands') = Len(commands) /\ Len(parsers') = Len(parsers) =>
             virtualNightMode' = virtualNightMode]_vars

\* C17: handling ARM_NIGHT hands exactly one operation to the arming
\* subsystem, intArmArea for area 1, which sends the frame ARM_HOME sends,
\* and handling ARM_HOME does the same.
C17_armNightIsInternalArm ==
    \A k \in 1..Len(commands) :
        commands[k].command \in {"ARM_NIGHT", "ARM_HOME"} =>
            /\ commands[k].returned = "true"
            /\ commands[k].ops = << [op |-> "intArmArea", address |-> 1] >>
            /\ commands[k].send \in 1..Len(sends)
            /\ sends[commands[k].send].action = "intArmArea"
            /\ sends[commands[k].send].address = 1
            /\ sends[commands[k].send].command
                   = createCommandMessage(1, commandBase("intArmArea"), commandCode("intArmArea"))

\* ARM_NIGHT and ARM_HOME have both been handled with the socket connected,
\* and their frames written
C17_witness ==
    /\ Len(commands) = 2
    /\ commands[1].command = "ARM_NIGHT"
    /\ commands[2].command = "ARM_HOME"
    /\ \A k \in 1..2 : sends[commands[k].send].outcome = "resolved"
    /\ sends[1].bytes = sends[2].bytes
    /\ Len(sends[1].bytes) = 15

\* C18: a command that is not DISARM, ARM_HOME, ARM_AWAY, ARM_NIGHT or RESET
\* makes handleCommand return false without raising, call no arm operation
\* and send no frame.
C18_unknownCommandUnhandled ==
    \A k \in 1..Len(commands) :
        commands[k].command \notin KnownCommands =>
            /\ commands[k].returned = "false"
            /\ commands[k].ops = <<>>
            /\ commands[k].send = 0

\* a string that matches no pattern and starts with no known prefix
Unknown(hexStr) ==
    /\ \A i \in 1..Len(Patterns) : ~Test(Patterns[i], hexStr)
    /\ substring8(hexStr) \notin {Str(<<6, 8, 0, 2, 0, 2, 6, 8>>),
                                  << "6", "8", "2", "C", "2", "C", "6", "8" >>}

C20_caseInsensitive ==
    call.fn = "getMsgType" =>
        /\ call.out = getMsgType(toLowerCase(call.hexStr))
        /\ call.out = getMsgType(toUpperCase(call.hexStr))

\* the frames handled so far that were of one of these types
FramesOf(types) == {k \in 1..Len(parsers) : parsers[k].type \in types}

\* C21: after any sequence of frames and commands the readiness flag is true
\* exactly when the most recent SB or CONF_ACK frame was an SB frame; it is
\* false before any such frame, and no other frame and no command changes it.
C21_readyFollowsLastFrame ==
    LET idx == FramesOf({"SB", "CONF_ACK"})
    IN  readyToSendData =
            (idx # {} /\ parsers[CHOOSE k \in idx : \A j \in idx : j <= k].type = "SB")

\* an SB frame set the flag and a CONF_ACK frame after it cleared it
C21_witness ==
    /\ Len(parsers) = 2
    /\ parsers[1].type = "SB"
    /\ parsers[2].type = "CONF_ACK"
    /\ ~readyToSendData

\* C22: the handling of a SEND_NORM frame or of a frame no case of parseData
\* is written for changes neither the readiness flag nor the virtual night
\* flag nor a snapshot nor the last-published map, and makes no publish call.
C22_noEffectFrames ==
    [][Len(parsers') > Len(parsers)
           /\ parsers'[Len(parsers')].type \in {"SEND_NORM", "INVALID", "SEND_NDAT"} =>
        /\ UNCHANGED <<readyToSendData, virtualNightMode, statesPrevious,
                       lastPublishedStates, handlers, pubLog>>
        /\ parsers'[Len(parsers')].pubs = <<>>
        /\ parsers'[Len(parsers')].left = 0
        /\ parsers'[Len(parsers')].pc = "done"]_vars

\* a SEND_NORM frame was handled while the readiness flag was set and a
\* sensor state had been published, and both are as they were
C22_witness ==
    /\ Len(parsers) = 2
    /\ parsers[1].type = "SB"
    /\ parsers[2].type = "SEND_NORM"
    /\ readyToSendData
    /\ statesPrevious[MELDEBEREICHE].has

\* C23: for a SYS_INT_ARMED frame the state published to the state topic is
\* armed_night when the virtual night flag is set and armed_home otherwise,
\* and the diagnostics record published after it carries the same state,
\* internalState armed_home and isVirtualMode equal to the flag.
C23_internalArmedPublishes ==
    [][Len(parsers') > Len(parsers) /\ parsers'[Len(parsers')].type = "SYS_INT_ARMED" =>
        LET pubs == parsers'[Len(parsers')].pubs
            state == IF virtualNightMode THEN "armed_night" ELSE "armed_home"
        IN  /\ Len(pubs) = 2
            /\ parsers'[Len(parsers')].left = 2
            /\ pubs[1].topic = "stateTopic"
            /\ pubs[1].message = Plain(state)
            /\ pubs[2].topic = "diagnosticsTopic/state"
            /\ pubs[2].message.json
            /\ pubs[2].message.state = state
            /\ pubs[2].message.internalState = "armed_home"
            /\ pubs[2].message.isVirtualMode = virtualNightMode
            /\ virtualNightMode' = virtualNightMode]_vars

\* ARM_NIGHT was handled, then a SYS_INT_ARMED frame, whose two publishes
\* were made and carried armed_night
C23_witness ==
    /\ Len(commands) = 1
    /\ commands[1].command = "ARM_NIGHT"
    /\ Len(parsers) = 1
    /\ parsers[1].type = "SYS_INT_ARMED"
    /\ parsers[1].pc = "done"
    /\ parsers[1].pubs[1].message = Plain("armed_night")
    /\ parsers[1].pubs[2].message.isVirtualMode


\* C24: a command sent while the TCP transport is not connected is rejected
\* at once as 'Socket is not connected' with nothing written, and that
\* stays so whatever happens to the connection afterwards: the rejected
\* command is never written later.
C24_notConnectedNeverWritten ==
    [][/\ (/\ Len(sends') = Len(sends) + 1
           /\ ~isConnected
           /\ sends'[Len(sends')].command # <<>>)
          => /\ sends'[Len(sends')].outcome = "not connected"
             /\ sends'[Len(sends')].bytes = <<>>
       /\ \A k \in 1..Len(sends) :
             sends[k].outcome = "not connected" => sends'[k] = sends[k]]_vars

\* a rejected disarm command of area 1 is still unwritten after a second
\* socket has connected
C24_witness ==
    /\ Len(sends) = 1
    /\ sends[1].outcome = "not connected"
    /\ sends[1].command # <<>>
    /\ sends[1].bytes = <<>>
    /\ isConnected
    /\ Len(sockets) = 2
    /\ sockets[2].state = "open"

\* C27: a frame handed to handleData while the transport reports
\* disconnected is not classified and has no effect: the flags, the
\* snapshots, the last-published map and the publishes stay as they were,
\* and nothing is returned or written to the socket.
C27_closedFrameDropped ==
    [][(Len(parsers') = Len(parsers) + 1 /\ ~isConnected)
        => /\ parsers'[Len(parsers')].pc = "dropped"
           /\ parsers'[Len(parsers')].ret = <<>>
           /\ ~parsers'[Len(parsers')].sent
           /\ parsers'[Len(parsers')].pubs = <<>>
           /\ UNCHANGED <<readyToSendData, virtualNightMode, statesPrevious,
                          lastPublishedStates, handlers, pubLog, received,
                          sends>>]_vars

\* an SB frame arrived on the first socket after its idle timeout had ended
\* it
C27_witness ==
    /\ Len(parsers) = 1
    /\ parsers[1].type = "SB"
    /\ parsers[1].pc = "dropped"
    /\ sockets[1].state = "ending"
    /\ ~isConnected
    /\ ~readyToSendData


\* C26: when the idle timeout of a socket fires, the transport is marked
\* disconnected and the socket is ended; below the attempt cap an attempt is
\* counted and the reconnection timer is running afterwards, at the cap
\* neither changes.
C26_timeoutEndsAndReconnects ==
    [][\A s \in 1..Len(sockets) :
          (sockets[s].state # "ending" /\ sockets'[s].state = "ending")
          => /\ ~isConnected'
             /\ reconnectAttempts < maxReconnectAttempts
                  => /\ reconnectTimeout'
                     /\ reconnectAttempts' = reconnectAttempts + 1
             /\ reconnectAttempts >= maxReconnectAttempts
                  => UNCHANGED <<reconnectTimeout, reconnectAttempts>>]_vars

\* the open first socket has been ended by its timeout, the first attempt
\* is counted and its timer is running
C26_witness ==
    /\ Len(sockets) = 1
    /\ sockets[1].state = "ending"
    /\ sockets[1].consumed = 1
    /\ ~isConnected
    /\ reconnectTimeout
    /\ reconnectAttempts = 1


\* the outcomes with which the promise of a sendCommand call is rejected
Rejected == {"invalid", "not connected", "write failed"}

\* C25: no failed send of an arm operation is left as a rejection nobody
\* handles: whenever the promise of its sendCommand call is rejected, a
\* handler of the caller observes the rejection.
C25_noUnhandledRejection ==
    \A k \in 1..Len(sends) : sends[k].outcome \in Rejected => sends[k].handled


\* C28: a failed publish of a sensor state is logged and leaves the
\* last-published map as it was, and the frame's handling goes on: once it
\* has returned, every changed named position of the frame has been
\* evaluated, the ones after the failed one included.
C28_publishFailureNotFatal ==
    /\ [][\A e \in 1..Len(pubLog) :
             (pubLog[e].res = "pending" /\ pubLog'[e].res = "failed")
             => lastPublishedStates' = lastPublishedStates]_vars
    /\ [](\A k \in 1..Len(handlers) :
             handlers[k].pc = "done"
             => \A i \in 1..Len(handlers[k].work) :
                  Positions(handlers[k].area)[handlers[k].work[i].pos].named
                  => \E e \in 1..Len(pubLog) :
                        /\ pubLog[e].frame = handlers[k].frame
                        /\ pubLog[e].pos = handlers[k].work[i].pos
                        /\ pubLog[e].res \in {"ok", "failed", "suppressed"})

\* a frame whose first publish failed and whose later position was
\* published all the same, the failed topic still without a last-published
\* state
C28_witness ==
    \E e1, e2 \in 1..Len(pubLog) :
        /\ e1 < e2
        /\ pubLog[e1].frame = pubLog[e2].frame
        /\ pubLog[e1].res = "failed"
        /\ pubLog[e2].res = "ok"
        /\ lastPublishedStates[pubLog[e1].topic] # pubLog[e1].state
        /\ lastPublishedStates[pubLog[e2].topic] = pubLog[e2].state


\* C29: mapBinaryValue(bit, inverted) is ON exactly when inverted holds and
\* the bit is '0', or inverted does not hold and the bit is '1'; otherwise
\* it is OFF.
C29_mapBinaryValueTable ==
    call.fn = "mapBinaryValue"
    => /\ call.out \in {"ON", "OFF"}
       /\ call.out = "ON" <=> \/ call.inverted /\ call.value = "0"
                              \/ ~call.inverted /\ call.value = "1"

\* the inverted mapping of a cleared bit
C29_witness ==
    /\ call.fn = "mapBinaryValue"
    /\ call.inverted
    /\ call.value = "0"
    /\ call.out = "ON"


\* the one cataloged position an SB frame carries: named and inverted
SbPosition == Positions(MELDEBEREICHE)[1]

\* handler h is that of an SB frame, not the first one, which clears the bit
\* of the inverted position
ClearsInverted(h) ==
    /\ h.area = MELDEBEREICHE
    /\ ~h.first
    /\ SbPosition.inverted
    /\ BitOf(h.prevMap, SbPosition) = "1"
    /\ BitOf(h.byteMap, SbPosition) = "0"

\* the publish calls made for the frame of handler h
CallsOf(h) == {e \in 1..Len(pubLog) : pubLog[e].frame = h.frame /\ IsCall(pubLog[e])}

\* C30 as stated: an SB frame that changes the one bit mapped to an
\* inverted position whose prior bit was '1' has, once handled, exactly one
\* message published to that position's topic, with state OFF.
C30_asStated ==
    \A k \in 1..Len(handlers) :
        (ClearsInverted(handlers[k]) /\ handlers[k].pc = "done")
        => /\ Cardinality(CallsOf(handlers[k])) = 1
           /\ \A e \in CallsOf(handlers[k]) :
                 pubLog[e].topic = SbPosition.topic /\ pubLog[e].state = "OFF"

\* C30: an SB frame that changes the one bit mapped to an inverted position
\* whose prior bit was '1' computes the state ON for it: when the topic's
\* last published state is already ON nothing is published, otherwise
\* exactly one message is published to that position's topic, with state
\* ON.
C30_invertedClearedPublishesOn ==
    /\ [][(Len(handlers') = Len(handlers) + 1 /\ ClearsInverted(handlers'[Len(handlers')]))
          => LET h == handlers'[Len(handlers')]
                 entry == [topic |-> SbPosition.topic, state |-> "ON",
                           frame |-> h.frame, pos |-> 1,
                           res |-> IF lastPublishedStates[SbPosition.topic] = "ON"
                                   THEN "suppressed" ELSE "pending"]
             IN  /\ pubLog' = Append(pubLog, entry)
                 /\ h.pc = IF lastPublishedStates[SbPosition.topic] = "ON"
                           THEN "done" ELSE "awaiting"]_vars
    /\ [](\A k \in 1..Len(handlers) :
             ClearsInverted(handlers[k])
             => /\ Cardinality(CallsOf(handlers[k])) <= 1
                /\ \A e \in CallsOf(handlers[k]) :
                      pubLog[e].topic = SbPosition.topic /\ pubLog[e].state = "ON")

\* the second SB frame cleared the bit and its one publish, of state ON,
\* succeeded
C30_witness ==
    \E k \in 1..Len(handlers) :
        /\ ClearsInverted(handlers[k])
        /\ handlers[k].pc = "done"
        /\ \E e \in CallsOf(handlers[k]) : pubLog[e].res = "ok" /\ pubLog[e].state = "ON"
        /\ lastPublishedStates[SbPosition.topic] = "ON"


\* the bit of weight 2^i of byte b, as a character
BitOfWeight(b, i) == IF (b \div (2 ^ i)) % 2 = 1 THEN "1" ELSE "0"

\* C31 as stated: character 0 of reverseBinary(b) is the bit of weight 128
\* of b, and character i the bit of weight 2^(7 - i).
C31_asStated ==
    call.fn = "reverseBinary"
    => \A i \in 0..7 : call.out[i + 1] = BitOfWeight(call.num, 7 - i)

\* C31: character 0 of reverseBinary(b) is the least significant bit of b,
\* and character i the bit of weight 2^i, so a position with bit address a
\* is read from the bit of weight 2^(a mod 8) of byte floor(a / 8).
C31_indexZeroIsLeastSignificant ==
    call.fn = "reverseBinary"
    => \A i \in 0..7 : call.out[i + 1] = BitOfWeight(call.num, i)

\* reverseBinary(5), which the two readings tell apart at index 0
C31_witness ==
    /\ call.fn = "reverseBinary"
    /\ call.num = 5
    /\ call.out = << "1", "0", "1", "0", "0", "0", "0", "0" >>

RECURSIVE BinValue(_)
\* the number a string of binary digits denotes, most significant first
BinValue(s) ==
    IF s = <<>> THEN 0
    ELSE 2 * BinValue(SubSeq(s, 1, Len(s) - 1)) + (IF s[Len(s)] = "1" THEN 1 ELSE 0)

\* C32: reverseBinary(b) is 8 binary digits long for every byte b, and read
\* backwards it is the binary representation of b.
C32_reversalIsInvolution ==
    call.fn = "reverseBinary"
    => /\ Len(call.out) = 8
       /\ \A i \in 1..Len(call.out) : call.out[i] \in {"0", "1"}
       /\ BinValue([i \in 1..Len(call.out) |-> call.out[Len(call.out) + 1 - i]])
              = call.num

\* a byte whose binary representation needs padding and is no palindrome
C32_witness ==
    /\ call.fn = "reverseBinary"
    /\ call.num = 6
    /\ call.out = << "0", "1", "1", "0", "0", "0", "0", "0" >>


\* byte map m holds frame bytes fb from byte offset on, up to the last one
SlicedFrom(m, fb, offset) ==
    /\ Len(m) = Len(fb) - offset
    /\ \A i \in 0..(Len(m) - 1) : MapGet(m, i) = fb[offset + i + 1]

\* C33: the byte map handed to handleStateChange for an MP frame belongs to
\* MELDEGRUPPEN and holds at index i the frame's byte 12 + i, the one for an
\* SB frame belongs to MELDEBEREICHE and holds the frame's byte 10 + i, for
\* every i up to the frame's last byte.
C33_contentOffsets ==
    \A k \in 1..Len(handlers) :
        LET h == handlers[k]
            type == parsers[h.frame].type
        IN  /\ type \in ContentTypes
            /\ h.area = (IF type = "MP" THEN MELDEGRUPPEN ELSE MELDEBEREICHE)
            /\ \E payload \in Payloads(h.area) :
                  SlicedFrom(h.byteMap, FrameBytes(type, payload),
                             IF type = "MP" THEN 12 ELSE 10)

\* an MP frame of two sensor bytes and an SB frame of one, each decoded up
\* to its checksum and end byte
C33_witness ==
    /\ Len(handlers) = 2
    /\ parsers[1].type = "MP"
    /\ handlers[1].area = MELDEGRUPPEN
    /\ handlers[1].byteMap = << 1, 2, 162, 22 >>
    /\ parsers[2].type = "SB"
    /\ handlers[2].area = MELDEBEREICHE
    /\ handlers[2].byteMap = << 0, 2, 1, 166, 22 >>


\* C34: the frames that arrive on a connection made after a loss reach the
\* frame handler like those before it: no socket has received a frame that
\* was not handed to handleData.
C34_framesDeliveredAfterReconnect ==
    \A s \in 1..Len(sockets) : ~sockets[s].unheard


\* C35: of the publish calls a sensor topic receives, no two consecutive
\* ones carry the same state, whether or not the frames that caused them
\* overlapped.
C35_noRepeatedPublish ==
    \A i, j \in 1..Len(pubLog) :
        (/\ i < j
         /\ IsCall(pubLog[i]) /\ IsCall(pubLog[j])
         /\ pubLog[i].topic = pubLog[j].topic
         /\ \A m \in (i + 1)..(j - 1) :
               ~(IsCall(pubLog[m]) /\ pubLog[m].topic = pubLog[i].topic))
        => pubLog[i].state # pubLog[j].state


\* C36: once no frame handling is awaiting a publish and no publish has
\* failed, the last state published to every named sensor topic is the
\* state of the sensor's bit in the last frame delivered for its content
\* area, whenever the frames arrived.
C36_lastPublishedIsLastFrame ==
    (Idle /\ \A e \in 1..Len(pubLog) : pubLog[e].res # "failed")
    => \A a \in Areas : \A p \in 1..Len(Positions(a)) :
          LET position == Positions(a)[p] IN
          (received[a].has /\ position.named /\ BitOf(received[a].map, position) # "none")
          => lastPublishedStates[position.topic]
                = mapBinaryValue(BitOf(received[a].map, position), position.inverted)


\* C37: a handleCommand call that finds no action for its command string
\* and returns false leaves the virtual night flag as it was.
C37_unknownCommandKeepsNightFlag ==
    [][(/\ Len(commands') = Len(commands) + 1
        /\ commands'[Len(commands')].returned = "false")
       => virtualNightMode' = virtualNightMode]_vars

\* an ARM_NIGHT command whose internal-arm frame was handed to the socket
\* and has not failed
NightFrameWritten ==
    \E k \in 1..Len(commands) :
        /\ commands[k].command = "ARM_NIGHT"
        /\ commands[k].send # 0
        /\ sends[commands[k].send].outcome \in {"writing", "resolved"}

\* C38: the virtual night flag is set only when the internal-arm frame of an
\* ARM_NIGHT command was written to the socket: without one, the flag is
\* false and no SYS_INT_ARMED frame is published as armed_night.
C38_nightFlagOnlyAfterWrite ==
    /\ virtualNightMode => NightFrameWritten
    /\ \A k \in 1..Len(parsers) :
          (parsers[k].type = "SYS_INT_ARMED" /\ parsers[k].pubs[1].message.state = "armed_night")
          => NightFrameWritten


\* C39: once closeConnection() has been called, no reconnection of the TCP
\* transport is started: no attempt is counted, no reconnection timer is
\* set and no socket is created, also when the destroyed socket emits its
\* close event.
C39_noReconnectAfterClose ==
    [][shutdown => /\ reconnectAttempts' <= reconnectAttempts
                   /\ reconnectTimeout' => reconnectTimeout
                   /\ Len(sockets') = Len(sockets)]_vars


\* the clients mqttClient.end() was not called on; the handler calls it in
\* close() only, so a client that is closed or has failed still counts: it
\* keeps reconnecting by itself every reconnectPeriod
Unended == {c \in 1..Len(clients) : clients[c].status # "ended"}

\* C40: at any time at most one MQTT client the handler created has not been
\* ended.
C40_oneLiveClient ==
    Cardinality(Unended) <= 1

====
